---- MODULE Spec2Model ----
(***************************************************************************)
(* docker-review: the directive (Dockerfile) parser, the report assembly   *)
(* of the analyzer (rule results merged, sorted by severity), the scoring  *)
(* engine, the rules, the registry and the analyze command of main.        *)
(*                                                                         *)
(* Text is a sequence of one-character strings.  A Dockerfile is one such  *)
(* sequence with "\n" between its physical lines; str::lines, str::trim    *)
(* and the two regular expressions of src/parser/dockerfile.rs are         *)
(* operators on such sequences.                                            *)
(***************************************************************************)
EXTENDS Integers, Sequences, FiniteSets, TLC

VARIABLES content, p, q, found, a, compose

vars == <<content, p, q, found, a, compose>>

(***************************************************************************)
(* Bounds of the model.                                                    *)
(***************************************************************************)
\* Physical lines of a Dockerfile given to parse_content.
MaxLines == 3
\* Issues one rule returns from one check in the ordinary report runs.
MaxPerRule == 2
\* FROM lines of the long Dockerfile (one DF001 issue each).
MaxFromLines == 50

(***************************************************************************)
(* Characters and strings.                                                 *)
(***************************************************************************)
NL == "\n"
BACKSLASH == "\\"
HASH == "#"

\* char::is_whitespace / regex \s, on the characters the model uses.
IsWhitespace(c) == c \in {" ", "\t"}

LowerLetters == <<"a","b","c","d","e","f","g","h","i","j","k","l","m",
                  "n","o","p","q","r","s","t","u","v","w","x","y","z">>
UpperLetters == <<"A","B","C","D","E","F","G","H","I","J","K","L","M",
                  "N","O","P","Q","R","S","T","U","V","W","X","Y","Z">>

LowerIndex == [c \in {LowerLetters[k] : k \in 1..26} |->
                 CHOOSE k \in 1..26 : LowerLetters[k] = c]
UpperIndex == [c \in {UpperLetters[k] : k \in 1..26} |->
                 CHOOSE k \in 1..26 : UpperLetters[k] = c]

\* char::to_ascii_uppercase / to_uppercase on ASCII.
ToUpperChar(c) ==
    IF c \in DOMAIN LowerIndex THEN UpperLetters[LowerIndex[c]] ELSE c

\* char::to_ascii_lowercase.
ToLowerChar(c) ==
    IF c \in DOMAIN UpperIndex THEN LowerLetters[UpperIndex[c]] ELSE c

\* str::to_uppercase.
ToUppercase(s) == [k \in 1..Len(s) |-> ToUpperChar(s[k])]

\* str::eq_ignore_ascii_case: same length, bytes equal after ASCII lower-casing.
EqIgnoreAsciiCase(s, t) ==
    /\ Len(s) = Len(t)
    /\ \A k \in 1..Len(s) : ToLowerChar(s[k]) = ToLowerChar(t[k])

\* str::trim_start.
RECURSIVE TrimStart(_)
TrimStart(s) ==
    IF s # <<>> /\ IsWhitespace(Head(s)) THEN TrimStart(Tail(s)) ELSE s

\* str::trim_end.
RECURSIVE TrimEnd(_)
TrimEnd(s) ==
    IF s # <<>> /\ IsWhitespace(s[Len(s)])
    THEN TrimEnd(SubSeq(s, 1, Len(s) - 1))
    ELSE s

\* str::trim.
Trim(s) == TrimEnd(TrimStart(s))

\* The pieces of s between the "\n" characters (str::split('\n')).
RECURSIVE SplitNL(_, _)
SplitNL(s, cur) ==
    IF s = <<>> THEN <<cur>>
    ELSE IF Head(s) = NL THEN <<cur>> \o SplitNL(Tail(s), <<>>)
    ELSE SplitNL(Tail(s), Append(cur, Head(s)))

\* str::lines: the text split at "\n", a final empty piece (the text is empty
\* or ends with its line terminator) left out.
Lines(s) ==
    LET pieces == SplitNL(s, <<>>)
    IN IF pieces[Len(pieces)] = <<>>
       THEN SubSeq(pieces, 1, Len(pieces) - 1)
       ELSE pieces

\* The lines joined by "\n" (the text whose lines they are).
RECURSIVE JoinNL(_)
JoinNL(ls) ==
    IF ls = <<>> THEN <<>>
    ELSE IF Len(ls) = 1 THEN ls[1]
    ELSE ls[1] \o <<NL>> \o JoinNL(Tail(ls))

(***************************************************************************)
(* The two regular expressions.                                            *)
(***************************************************************************)
\* The keyword alternation of INSTRUCTION_RE.
Keywords ==
    { <<"F","R","O","M">>, <<"R","U","N">>, <<"C","M","D">>,
      <<"L","A","B","E","L">>, <<"E","X","P","O","S","E">>, <<"E","N","V">>,
      <<"A","D","D">>, <<"C","O","P","Y">>,
      <<"E","N","T","R","Y","P","O","I","N","T">>,
      <<"V","O","L","U","M","E">>, <<"U","S","E","R">>,
      <<"W","O","R","K","D","I","R">>, <<"A","R","G">>,
      <<"O","N","B","U","I","L","D">>,
      <<"S","T","O","P","S","I","G","N","A","L">>,
      <<"H","E","A","L","T","H","C","H","E","C","K">>,
      <<"S","H","E","L","L">>, <<"M","A","I","N","T","A","I","N","E","R">> }

\* The keywords INSTRUCTION_RE can match at the start of line: (?i)^(KW)\s+ .
MatchingKeywords(line) ==
    { kw \in Keywords :
        /\ Len(line) > Len(kw)
        /\ \A k \in 1..Len(kw) : ToUpperChar(line[k]) = kw[k]
        /\ IsWhitespace(line[Len(kw) + 1]) }

\* Mutant of InstructionReMatches: the (?i) flag left out.
InstructionReMatchesCaseSensitive(line) ==
    /\ \E kw \in Keywords :
          /\ Len(line) > Len(kw)
          /\ SubSeq(line, 1, Len(kw)) = kw
          /\ IsWhitespace(line[Len(kw) + 1])
    /\ \A k \in 1..Len(line) : line[k] # NL

\* INSTRUCTION_RE.captures(line).is_some(); "." matches no "\n".
InstructionReMatches(line) ==
    /\ MatchingKeywords(line) # {}
    /\ \A k \in 1..Len(line) : line[k] # NL

\* INSTRUCTION_RE.captures(line): group 1 is the keyword as written, group 2
\* what follows the greedy \s+ .
InstructionReCaptures(line) ==
    LET kw == CHOOSE k \in MatchingKeywords(line) : TRUE
    IN [g1 |-> SubSeq(line, 1, Len(kw)),
        g2 |-> TrimStart(SubSeq(line, Len(kw) + 1, Len(line)))]

\* CONTINUATION_RE.is_match(s): a backslash with only whitespace after it.
ContinuationReIsMatch(s) ==
    LET t == TrimEnd(s)
    IN t # <<>> /\ t[Len(t)] = BACKSLASH

\* CONTINUATION_RE.replace(s, ""): the match (that backslash and the
\* whitespace after it) removed; s itself when there is no match.
ContinuationReReplace(s) ==
    LET t == TrimEnd(s)
    IN IF ContinuationReIsMatch(s) THEN SubSeq(t, 1, Len(t) - 1) ELSE s

(***************************************************************************)
(* DockerfileParser::parse_content, one step at a time.                    *)
(*                                                                         *)
(* The parser state s: lines (content.lines()), i (the 0-based line        *)
(* index), pc ("idle": not called yet; "scan": at the head of the outer    *)
(* loop; "cont": at the head of the continuation loop; "done": returned),  *)
(* instructions, and the locals of the directive under construction.       *)
(* consumed records, in order, each physical line the loops have read and  *)
(* as what.                                                                *)
(***************************************************************************)
NoLocals ==
    [instruction_name |-> <<>>, arguments |-> <<>>, start_line |-> 0,
     raw_line |-> <<>>, current_line |-> <<>>]

\* Lines 35-37: the state on entry to the outer loop.
InitParser(text) ==
    [lines |-> Lines(text), i |-> 0, pc |-> "scan", instructions |-> <<>>,
     loc |-> NoLocals, consumed |-> <<>>]

\* Line 40: lines[i].trim().
CurrentLine(s) == Trim(s.lines[s.i + 1])

\* Line 43: line.is_empty() || line.starts_with('#').
IsBlankOrComment(line) == IF line = <<>> THEN TRUE ELSE Head(line) = HASH

\* Lines 43-46: a blank line or a comment is skipped.
SkipStep(s) ==
    [s EXCEPT !.i = s.i + 1,
              !.consumed = Append(@, [line |-> s.i + 1, as |-> "skipped"])]

\* Lines 49 and 77: a line INSTRUCTION_RE does not match is dropped.
DropStep(s) ==
    [s EXCEPT !.i = s.i + 1,
              !.consumed = Append(@, [line |-> s.i + 1, as |-> "skipped"])]

\* Mutant of MatchStep: start_line taken as the 0-based index i.
MatchStepZeroIndexed(s) ==
    LET line == CurrentLine(s)
        captures == InstructionReCaptures(line)
    IN [s EXCEPT !.pc = "cont",
                 !.loc = [instruction_name |-> ToUppercase(captures.g1),
                          arguments |-> captures.g2,
                          start_line |-> s.i,
                          raw_line |-> line,
                          current_line |-> line],
                 !.consumed = Append(@, [line |-> s.i + 1, as |-> "first"])]

\* Lines 49-56: the line starts a directive; the continuation loop is entered.
MatchStep(s) ==
    LET line == CurrentLine(s)
        captures == InstructionReCaptures(line)
    IN [s EXCEPT !.pc = "cont",
                 !.loc = [instruction_name |-> ToUppercase(captures.g1),
                          arguments |-> captures.g2,
                          start_line |-> s.i + 1,
                          raw_line |-> line,
                          current_line |-> line],
                 !.consumed = Append(@, [line |-> s.i + 1, as |-> "first"])]

\* Line 57: the condition of the continuation loop.
ContinuationCond(s) ==
    ContinuationReIsMatch(s.loc.current_line) /\ s.i + 1 < Len(s.lines)

\* Mutant of ContinuationStep: raw_line joined by a space, not a newline.
ContinuationStepRawJoinedBySpace(s) ==
    LET next_line == Trim(s.lines[s.i + 2])
    IN [s EXCEPT !.i = s.i + 1,
                 !.loc.current_line = next_line,
                 !.loc.raw_line = @ \o <<" ">> \o next_line,
                 !.loc.arguments =
                     ContinuationReReplace(@) \o <<" ">> \o next_line,
                 !.consumed =
                     Append(@, [line |-> s.i + 2, as |-> "continuation"])]

\* Lines 58-66: one iteration of the continuation loop.
ContinuationStep(s) ==
    LET next_line == Trim(s.lines[s.i + 2])
    IN [s EXCEPT !.i = s.i + 1,
                 !.loc.current_line = next_line,
                 !.loc.raw_line = @ \o <<NL>> \o next_line,
                 !.loc.arguments =
                     ContinuationReReplace(@) \o <<" ">> \o next_line,
                 !.consumed =
                     Append(@, [line |-> s.i + 2, as |-> "continuation"])]

\* Mutant of PushStep: the i += 1 of line 77 left out.
PushStepNoAdvance(s) ==
    [s EXCEPT !.instructions =
                  Append(@, [name |-> s.loc.instruction_name,
                             arguments |-> Trim(s.loc.arguments),
                             line_number |-> s.loc.start_line,
                             raw_line |-> s.loc.raw_line]),
              !.pc = "scan",
              !.loc = NoLocals]

\* Lines 69-77: the Instruction is pushed and the outer loop moves on.
PushStep(s) ==
    [s EXCEPT !.instructions =
                  Append(@, [name |-> s.loc.instruction_name,
                             arguments |-> Trim(s.loc.arguments),
                             line_number |-> s.loc.start_line,
                             raw_line |-> s.loc.raw_line]),
              !.i = s.i + 1,
              !.pc = "scan",
              !.loc = NoLocals]

\* Lines 39 and 80-83: the outer loop ends and the parser is returned.
FinishStep(s) == [s EXCEPT !.pc = "done"]

\* The conditions under which each step is the one parse_content takes.
CanFinish(s) == s.pc = "scan" /\ s.i >= Len(s.lines)

CanSkip(s) ==
    s.pc = "scan" /\ s.i < Len(s.lines) /\ IsBlankOrComment(CurrentLine(s))

CanMatch(s) ==
    /\ s.pc = "scan" /\ s.i < Len(s.lines)
    /\ ~IsBlankOrComment(CurrentLine(s))
    /\ InstructionReMatches(CurrentLine(s))

CanDrop(s) ==
    /\ s.pc = "scan" /\ s.i < Len(s.lines)
    /\ ~IsBlankOrComment(CurrentLine(s))
    /\ ~InstructionReMatches(CurrentLine(s))

CanContinue(s) == s.pc = "cont" /\ ContinuationCond(s)

CanPush(s) == s.pc = "cont" /\ ~ContinuationCond(s)

\* The step parse_content takes from state s (a running call).
ParseStep(s) ==
    IF CanContinue(s) THEN ContinuationStep(s)
    ELSE IF CanPush(s) THEN PushStep(s)
    ELSE IF CanFinish(s) THEN FinishStep(s)
    ELSE IF CanSkip(s) THEN SkipStep(s)
    ELSE IF CanMatch(s) THEN MatchStep(s)
    ELSE DropStep(s)

RECURSIVE ParseRun(_)
ParseRun(s) == IF s.pc = "done" THEN s ELSE ParseRun(ParseStep(s))

\* DockerfileParser::parse_content(text).instructions.
ParseContent(text) == ParseRun(InitParser(text)).instructions

\* Mutant of GetInstructions: names compared exactly.
GetInstructionsCaseSensitive(instructions, name) ==
    SelectSeq(instructions, LAMBDA ins : ins.name = name)

\* DockerfileParser::get_instructions.
GetInstructions(instructions, name) ==
    SelectSeq(instructions, LAMBDA ins : EqIgnoreAsciiCase(ins.name, name))

\* DockerfileParser::has_instruction.
HasInstruction(instructions, name) ==
    \E k \in 1..Len(instructions) : EqIgnoreAsciiCase(instructions[k].name, name)

(***************************************************************************)
(* Inputs of the parser runs.                                              *)
(***************************************************************************)
PhysicalLines ==
    { <<>>,                                        \* blank
      <<" ", "#", "c">>,                           \* comment, indented
      <<"R","U","N"," ","a">>,                     \* RUN a
      <<"r","u","n"," ","a"," ",BACKSLASH>>,       \* run a \
      <<"R","U","N"," ","a",BACKSLASH>>,           \* RUN a\
      <<" ","F","r","o","m"," "," ","b"," ">>,     \* From  b, padded
      <<"E","N","V"," ",BACKSLASH," ">>,           \* ENV \, padded
      <<"b"," ",BACKSLASH>>,                       \* b \
      <<"b">>,                                     \* b
      <<BACKSLASH>>,                               \* \
      <<"R","U","N">>,                             \* keyword alone
      <<"R","U","N","a"," ","b">> }                \* RUNa b

RECURSIVE SeqsUpTo(_, _)
SeqsUpTo(S, n) ==
    IF n = 0 THEN {<<>>}
    ELSE LET shorter == SeqsUpTo(S, n - 1)
         IN shorter \cup { Append(ls, x) : ls \in shorter, x \in S }

Contents == { JoinNL(ls) : ls \in SeqsUpTo(PhysicalLines, MaxLines) }

\* Names asked of get_instructions / has_instruction.
QueryNames == { <<"r","u","n">>, <<"F","R","O","M">>, <<"R","U">> }

NoQuery == [name |-> <<>>, result |-> <<>>, has |-> FALSE, asked |-> FALSE]

(***************************************************************************)
(* The parser specification.                                               *)
(***************************************************************************)
\* Before the call.
IdleParser == [InitParser(<<>>) EXCEPT !.pc = "idle"]

Init ==
    /\ content = <<>>
    /\ p = IdleParser
    /\ q = NoQuery
    /\ found = <<>>
    /\ a = [stage |-> "idle"]
    /\ compose = <<>>

\* parse_content is called with a text (lines 34-37).
Parse ==
    /\ p.pc = "idle"
    /\ \E text \in Contents :
         /\ content' = text
         /\ p' = InitParser(text)
    /\ UNCHANGED <<q, found, a, compose>>

SkipLine ==
    /\ CanSkip(p)
    /\ p' = SkipStep(p)
    /\ UNCHANGED <<content, q, found, a, compose>>

MatchInstruction ==
    /\ CanMatch(p)
    /\ p' = MatchStep(p)
    /\ UNCHANGED <<content, q, found, a, compose>>

DropLine ==
    /\ CanDrop(p)
    /\ p' = DropStep(p)
    /\ UNCHANGED <<content, q, found, a, compose>>

Continuation ==
    /\ CanContinue(p)
    /\ p' = ContinuationStep(p)
    /\ UNCHANGED <<content, q, found, a, compose>>

PushInstruction ==
    /\ CanPush(p)
    /\ p' = PushStep(p)
    /\ UNCHANGED <<content, q, found, a, compose>>

Finish ==
    /\ CanFinish(p)
    /\ p' = FinishStep(p)
    /\ UNCHANGED <<content, q, found, a, compose>>

\* A caller asks the returned parser for the directives of one name.
Query ==
    /\ p.pc = "done"
    /\ \E name \in QueryNames :
         q' = [name |-> name,
               result |-> GetInstructions(p.instructions, name),
               has |-> HasInstruction(p.instructions, name),
               asked |-> TRUE]
    /\ UNCHANGED <<content, p, found, a, compose>>

Next ==
    \/ Parse
    \/ SkipLine
    \/ MatchInstruction
    \/ DropLine
    \/ Continuation
    \/ PushInstruction
    \/ Finish
    \/ Query

Spec == Init /\ [][Next]_vars

(***************************************************************************)
(* Analyzer::analyze_dockerfile / analyze_compose after parsing: the rules *)
(* run in wiring order, their issues are merged, sorted by severity and    *)
(* scored.  found is what each rule's check returns for the parsed file;   *)
(* an issue is [rule_id, rule_name, severity, line_number].                *)
(***************************************************************************)
\* enum Severity, in declaration order (derive(PartialOrd, Ord)).
Severities == <<"Suggestion", "Warning", "Critical">>

SeverityRank(sev) == CHOOSE k \in 1..3 : Severities[k] = sev

\* Mutant of SeverityCmp: |a, b| a.severity.cmp(&b.severity).
SeverityCmpAscending(x, y) ==
    IF SeverityRank(x.severity) < SeverityRank(y.severity) THEN "Less"
    ELSE IF SeverityRank(x.severity) > SeverityRank(y.severity) THEN "Greater"
    ELSE "Equal"

\* The comparator of the sort: |a, b| b.severity.cmp(&a.severity).
SeverityCmp(x, y) ==
    IF SeverityRank(y.severity) < SeverityRank(x.severity) THEN "Less"
    ELSE IF SeverityRank(y.severity) > SeverityRank(x.severity) THEN "Greater"
    ELSE "Equal"

\* issues.sort_by(cmp): slice::sort_by is a stable sort.  Element k goes
\* behind the elements that compare Less than it and the elements before it
\* that compare Equal to it.
SortBy(issues) ==
    LET n == Len(issues)
        behind(k) ==
            Cardinality({j \in 1..n :
                \/ SeverityCmp(issues[j], issues[k]) = "Less"
                \/ SeverityCmp(issues[j], issues[k]) = "Equal" /\ j < k})
        place == SubSeq([k \in 1..n |-> behind(k) + 1], 1, n)
    IN [m \in 1..n |-> issues[CHOOSE k \in 1..n : place[k] = m]]

\* Mutant of DockerfileRules: LayerOptimizationRule wired in as well.
DockerfileRulesWithLayerOptimization ==
    <<"DF001", "DF002", "DF003", "DF004", "DF005",
      "DF006", "DF007", "DF008", "DF009", "DF010", "DF011">>

\* The rules analyze_dockerfile runs, in order.
DockerfileRules ==
    <<"DF001", "DF002", "DF003", "DF004", "DF005",
      "DF006", "DF007", "DF008", "DF009", "DF010">>

\* The rules analyze_compose runs, in order.
ComposeRules == <<"DC001", "DC002", "DC003", "DC004", "DC005">>

\* Mutant of RuleSeverity: LargeBaseImageRule declared a Warning.
RuleSeverityLargeImageWarning(id) ==
    CASE id \in {"DF001", "DF002", "DF006", "DF010",
                 "DC002", "DC004", "DC005"} -> "Critical"
      [] id \in {"DF003", "DF004", "DF005", "DF007", "DF009", "DF011",
                 "DC001", "DC003"} -> "Warning"
      [] id \in {"DF008"} -> "Suggestion"

\* Rule::severity / ComposeRule::severity of each rule of src/rules.
RuleSeverity(id) ==
    CASE id \in {"DF001", "DF002", "DF006", "DF010",
                 "DC002", "DC004", "DC005"} -> "Critical"
      [] id \in {"DF003", "DF004", "DF005", "DF007", "DF011",
                 "DC001", "DC003"} -> "Warning"
      [] id \in {"DF008", "DF009"} -> "Suggestion"

\* Rule::name / ComposeRule::name of each rule of src/rules.
RuleName(id) ==
    CASE id = "DF001" -> "Using latest tag"
      [] id = "DF002" -> "Running as root"
      [] id = "DF003" -> "No .dockerignore"
      [] id = "DF004" -> "Bad layer ordering"
      [] id = "DF005" -> "No HEALTHCHECK"
      [] id = "DF006" -> "Secrets in ENV"
      [] id = "DF007" -> "No version pinning"
      [] id = "DF008" -> "Missing multi-stage build"
      [] id = "DF009" -> "Large base image"
      [] id = "DF010" -> "Curl pipe to shell"
      [] id = "DF011" -> "Inefficient layer usage"
      [] id = "DC001" -> "No restart policy"
      [] id = "DC002" -> "Privileged container"
      [] id = "DC003" -> "No resource limits"
      [] id = "DC004" -> "Using latest tag"
      [] id = "DC005" -> "Hardcoded secrets"

\* issues.extend(rule.check(..)) for each rule of the list, in order.
RECURSIVE ExtendAll(_, _)
ExtendAll(rules, results) ==
    IF rules = <<>> THEN <<>>
    ELSE results[Head(rules)] \o ExtendAll(Tail(rules), results)

\* The category rule-id tables of calculate_scores.
SecurityRules == {"DF001", "DF002", "DF006", "DF010", "DC002", "DC004", "DC005"}
PerformanceRules == {"DF003", "DF004", "DF007", "DF008", "DF009"}
\* Mutant of MaintainabilityRules: DC003 left out of every table.
MaintainabilityRulesWithoutLimits == {"DF005", "DC001"}
MaintainabilityRules == {"DF005", "DC001", "DC003"}

\* The ranges of i8 and u8.
I8Min == -128
I8Max == 127
U8Max == 255

\* The match of calculate_category_score: what an issue deducts.
Deduction(sev) ==
    CASE sev = "Critical" -> 3
      [] sev = "Warning" -> 2
      [] sev = "Suggestion" -> 1

\* i8 arithmetic without overflow checks: the result wrapped into i8.
WrapI8(x) == ((x - I8Min) % (I8Max - I8Min + 1)) + I8Min

\* u8 arithmetic without overflow checks.
WrapU8(x) == x % (U8Max + 1)

\* What the first k issues deduct from the category of rule_ids.
Deducted(issues, rule_ids, k) ==
    LET count(sev) == Cardinality({j \in 1..k :
                          /\ issues[j].rule_id \in rule_ids
                          /\ issues[j].severity = sev})
    IN Deduction("Critical") * count("Critical")
         + Deduction("Warning") * count("Warning")
         + Deduction("Suggestion") * count("Suggestion")

\* The loop of calculate_category_score: the i8 score after the first k
\* issues (10 less what they deduct, each subtraction wrapping into i8).
ScoreAfter(issues, rule_ids, k) == WrapI8(10 - Deducted(issues, rule_ids, k))

\* Whether a subtraction of the loop leaves the range of i8 (a panic in a
\* build with overflow checks, a wrap in one without).
CategoryOverflows(issues, rule_ids) ==
    \E k \in 1..Len(issues) :
        /\ issues[k].rule_id \in rule_ids
        /\ ScoreAfter(issues, rule_ids, k - 1)
               - Deduction(issues[k].severity) < I8Min

\* calculate_category_score: score.max(0) as u8.
CategoryScore(issues, rule_ids) ==
    LET score == ScoreAfter(issues, rule_ids, Len(issues))
    IN [current |-> IF score > 0 THEN score ELSE 0,
        overflow |-> CategoryOverflows(issues, rule_ids)]

\* u8::saturating_mul.
SaturatingMul(x, k) == IF x * k > U8Max THEN U8Max ELSE x * k

\* Line 35: the weighted average in u8, and whether an addition overflowed.
OverallScore(sec, perf, maint) ==
    LET first == SaturatingMul(sec, 4) + SaturatingMul(perf, 3)
        second == WrapU8(first) + SaturatingMul(maint, 3)
    IN [current |-> WrapU8(second) \div 10,
        overflow |-> first > U8Max \/ second > U8Max]

\* calculate_scores: the Scores of an issue list, and whether computing them
\* overflowed.
CalculateScores(issues) ==
    LET sec == CategoryScore(issues, SecurityRules)
        perf == CategoryScore(issues, PerformanceRules)
        maint == CategoryScore(issues, MaintainabilityRules)
        overall == OverallScore(sec.current, perf.current, maint.current)
    IN [scores |->
           [security |-> [current |-> sec.current, potential |-> 10],
            performance |-> [current |-> perf.current, potential |-> 10],
            maintainability |-> [current |-> maint.current, potential |-> 10],
            overall |-> [current |-> overall.current, potential |-> 10]],
        overflow |-> sec.overflow \/ perf.overflow \/ maint.overflow
                       \/ overall.overflow]

(***************************************************************************)
(* Inputs of the report runs: how many issues each rule returns.           *)
(***************************************************************************)
\* Rules that return at most one issue for a file.
OncePerFile == {"DF002", "DF003", "DF004", "DF005", "DF008"}

\* The rules the short inputs let fire up to MaxPerRule times; every other
\* rule fires at most once in them.
Repeating == {"DF001", "DF006", "DF009", "DC001", "DC002", "DC005"}

\* The issues a rule returns when it fires n times: one per offending
\* directive or service, in file order.
RuleIssues(id, n) ==
    [k \in 1..n |->
        [rule_id |-> id, rule_name |-> RuleName(id),
         severity |-> RuleSeverity(id), line_number |-> k]]

RuleSet(rules) == {rules[k] : k \in 1..Len(rules)}

\* Counts for a short Dockerfile.  MultistageRule (DF008) fires only when the
\* file has at most one FROM, and DF001 and DF009 fire at most once per FROM.
DockerfileCounts ==
    { c \in [RuleSet(DockerfileRules) -> 0..MaxPerRule] :
        /\ \A id \in OncePerFile : c[id] <= 1
        /\ \A id \in RuleSet(DockerfileRules) \ Repeating : c[id] <= 1
        /\ c["DF008"] = 1 => (c["DF001"] <= 1 /\ c["DF009"] <= 1) }

\* Counts for a long Dockerfile of n lines "FROM alpine:latest": one DF001 per
\* line, no USER (DF002), no HEALTHCHECK (DF005).
LongDockerfileCounts ==
    { [id \in RuleSet(DockerfileRules) |->
          IF id = "DF001" THEN n
          ELSE IF id \in {"DF002", "DF005"} THEN 1 ELSE 0] :
      n \in (MaxPerRule + 1)..MaxFromLines }

\* Counts for a descriptor: each rule fires once per offending service.
ComposeCounts ==
    { c \in [RuleSet(ComposeRules) -> 0..MaxPerRule] :
        \A id \in RuleSet(ComposeRules) \ Repeating : c[id] <= 1 }

ResultsOf(rules, c) == [id \in RuleSet(rules) |-> RuleIssues(id, c[id])]

NoScores == [security |-> [current |-> 0, potential |-> 0],
             performance |-> [current |-> 0, potential |-> 0],
             maintainability |-> [current |-> 0, potential |-> 0],
             overall |-> [current |-> 0, potential |-> 0]]

(***************************************************************************)
(* The report specification.                                               *)
(***************************************************************************)
\* analyze_dockerfile lines 94-106: the ten rules run, their issues merged.
RunDockerfileRules ==
    /\ a.stage = "idle"
    /\ \E c \in DockerfileCounts \cup LongDockerfileCounts :
         /\ found' = ResultsOf(DockerfileRules, c)
         /\ a' = [stage |-> "collected", kind |-> "dockerfile",
                  issues |-> ExtendAll(DockerfileRules, found'),
                  scores |-> NoScores]
    /\ UNCHANGED <<content, p, q, compose>>

\* analyze_compose lines 125-132: the five rules run, their issues merged.
RunComposeRules ==
    /\ a.stage = "idle"
    /\ \E c \in ComposeCounts :
         /\ found' = ResultsOf(ComposeRules, c)
         /\ a' = [stage |-> "collected", kind |-> "compose",
                  issues |-> ExtendAll(ComposeRules, found'),
                  scores |-> NoScores]
    /\ UNCHANGED <<content, p, q, compose>>

\* Lines 109 and 135: issues.sort_by(|a, b| b.severity.cmp(&a.severity)).
SortIssues ==
    /\ a.stage = "collected"
    /\ a' = [a EXCEPT !.stage = "sorted",
                      !.issues = SortBy(a.issues)]
    /\ UNCHANGED <<content, p, q, found, compose>>

\* Lines 111-117 and 137-143: the scores are computed and the Report returned
\* (arithmetic that overflows wraps in a build without overflow checks).
ReturnReport ==
    /\ a.stage = "sorted"
    /\ a' = [a EXCEPT !.stage = "report",
                      !.scores = CalculateScores(a.issues).scores]
    /\ UNCHANGED <<content, p, q, found, compose>>

\* Lines 111 and 137 in a build with overflow checks: arithmetic that
\* overflows panics and no Report is returned.
OverflowPanic ==
    /\ a.stage = "sorted"
    /\ CalculateScores(a.issues).overflow
    /\ a' = [a EXCEPT !.stage = "panicked"]
    /\ UNCHANGED <<content, p, q, found, compose>>

NextReport ==
    \/ RunDockerfileRules
    \/ RunComposeRules
    \/ SortIssues
    \/ ReturnReport
    \/ OverflowPanic

SpecReport == Init /\ [][NextReport]_vars

(***************************************************************************)
(* What the specification says of a Dockerfile, read off its physical      *)
(* lines alone.                                                            *)
(***************************************************************************)
\* A trimmed line that begins with a keyword (in any case), then whitespace,
\* then an argument string.
BeginsWithDirective(line) ==
    \E kw \in Keywords :
        \E k \in (Len(kw) + 2)..Len(line) :
            /\ EqIgnoreAsciiCase(SubSeq(line, 1, Len(kw)), kw)
            /\ \A m \in (Len(kw) + 1)..(k - 1) : IsWhitespace(line[m])
            /\ ~IsWhitespace(line[k])

\* A trimmed line that carries a trailing continuation marker.
EndsWithMarker(line) == line # <<>> /\ line[Len(line)] = BACKSLASH

\* What physical line j of ls is: "start" (the first line of a logical line),
\* "cont" (absorbed by the logical line of the line before it) or "skip".
RECURSIVE LineRole(_, _)
LineRole(ls, j) ==
    LET line == Trim(ls[j])
        absorbed == IF j = 1 THEN FALSE
                    ELSE /\ LineRole(ls, j - 1) \in {"start", "cont"}
                         /\ EndsWithMarker(Trim(ls[j - 1]))
    IN IF absorbed THEN "cont"
       ELSE IF line = <<>> THEN "skip"
       ELSE IF Head(line) = HASH THEN "skip"
       ELSE IF BeginsWithDirective(line) THEN "start"
       ELSE "skip"

\* The physical lines at which a logical line starts.
LogicalStarts(ls) == { j \in 1..Len(ls) : LineRole(ls, j) = "start" }

\* The n-th smallest element of a set of numbers.
NthSmallest(S, n) == CHOOSE x \in S : Cardinality({y \in S : y < x}) = n - 1

\* The number of "\n" in a text.
CountNL(s) == Cardinality({k \in 1..Len(s) : s[k] = NL})

\* The physical lines Instruction ins was built from.
Span(ins) == ins.line_number..(ins.line_number + CountNL(ins.raw_line))

(***************************************************************************)
(* C1..C7: the directive parser.                                           *)
(***************************************************************************)
\* C1: parse_content returns exactly as many Instructions as the text has
\* logical lines (lines that are not blank, not a comment, not absorbed as a
\* continuation, and begin with a keyword, whitespace and an argument).
C1_InstructionCount ==
    p.pc = "done" =>
        Len(p.instructions) = Cardinality(LogicalStarts(Lines(content)))

\* C1 witness: two Instructions returned from three lines, one of them built
\* from two physical lines.
C1_Witness ==
    /\ p.pc = "done"
    /\ Len(p.lines) = 3
    /\ Len(p.instructions) = 2
    /\ \E k \in 1..2 : CountNL(p.instructions[k].raw_line) = 1

\* Every step leaves the line index where it is or moves it forward, and each
\* step that ends a loop iteration (of the scan or of the continuation loop)
\* moves it forward by one; only the step that enters the continuation loop,
\* inside an iteration of the scan, leaves it.
IndexAdvances ==
    /\ p'.i >= p.i
    /\ (p.pc \in {"scan", "cont"} /\ p'.pc # "done"
          /\ ~(p.pc = "scan" /\ p'.pc = "cont"))
          => p'.i = p.i + 1

\* Every physical line was read once, in order, and is skipped, the first line
\* of exactly one Instruction or a continuation line of exactly one.
ConsumedOnce ==
    /\ Len(p.consumed) = Len(p.lines)
    /\ p.i = Len(p.lines)
    /\ \A j \in 1..Len(p.lines) :
         LET firstOf == {k \in 1..Len(p.instructions) :
                            p.instructions[k].line_number = j}
             coveredBy == {k \in 1..Len(p.instructions) :
                            j \in Span(p.instructions[k])}
         IN /\ p.consumed[j].line = j
            /\ p.consumed[j].as = "skipped" => coveredBy = {}
            /\ p.consumed[j].as = "first" =>
                   Cardinality(firstOf) = 1 /\ coveredBy = firstOf
            /\ p.consumed[j].as = "continuation" =>
                   Cardinality(coveredBy) = 1 /\ firstOf = {}

\* What is left of the call: the lines not yet consumed, and within one line
\* the position in the loops.  A natural number in every state of a call.
Variant(s) ==
    3 * (Len(s.lines) - s.i)
      + (IF s.pc = "scan" THEN 2 ELSE IF s.pc = "cont" THEN 1 ELSE 0)

\* The steps a call in state s can take.
EnabledSteps(s) ==
    { st \in {"finish", "skip", "match", "drop", "continue", "push"} :
        CASE st = "finish" -> CanFinish(s)
          [] st = "skip" -> CanSkip(s)
          [] st = "match" -> CanMatch(s)
          [] st = "drop" -> CanDrop(s)
          [] st = "continue" -> CanContinue(s)
          [] st = "push" -> CanPush(s) }

\* C2: parse_content terminates on every input and returns Instructions: a
\* running call always has exactly one next step, every step strictly
\* decreases a natural number, the line index strictly increases with every
\* loop iteration, and on return every physical line has been consumed
\* exactly once.
C2_TerminatesConsumingEachLineOnce ==
    /\ [][IndexAdvances
           /\ (p.pc \in {"scan", "cont"} => Variant(p') < Variant(p))]_vars
    /\ [](p.pc \in {"scan", "cont"} =>
             /\ p.i <= Len(p.lines)
             /\ Variant(p) > 0
             /\ Cardinality(EnabledSteps(p)) = 1)
    /\ [](p.pc = "done" => Variant(p) = 0 /\ ConsumedOnce)

\* C2 witness: a returned parse in which lines were skipped, started an
\* Instruction and continued one.
C2_Witness ==
    /\ p.pc = "done"
    /\ {p.consumed[j].as : j \in 1..Len(p.consumed)} =
           {"skipped", "first", "continuation"}

\* The argument string the specification describes for an Instruction built
\* from the physical lines ls[from..to]: the first line's argument part and the
\* continuation lines, each without its trailing marker, joined by one space.
Piece(line) == Trim(IF EndsWithMarker(line) THEN SubSeq(line, 1, Len(line) - 1) ELSE line)

RECURSIVE JoinPieces(_)
JoinPieces(ps) ==
    IF ps = <<>> THEN <<>>
    ELSE IF Len(ps) = 1 THEN ps[1]
    ELSE ps[1] \o <<" ">> \o JoinPieces(Tail(ps))

ExpectedArguments(ls, ins) ==
    LET first == Trim(ls[ins.line_number])
        n == CountNL(ins.raw_line)
        pieces == [k \in 1..(n + 1) |->
                     IF k = 1 THEN Piece(InstructionReCaptures(first).g2)
                     ELSE Piece(Trim(ls[ins.line_number + k - 1]))]
    IN Trim(JoinPieces(pieces))

\* C3: the arguments of an Instruction built from several physical lines are
\* the lines' pieces, continuation markers removed, joined by exactly one
\* space, also when whitespace precedes a marker.  (Stated for Instructions
\* whose last physical line carries no marker; a marker there is C4's case.)
C3_PiecesJoinedBySingleSpace ==
    p.pc = "done" =>
        \A k \in 1..Len(p.instructions) :
            LET ins == p.instructions[k]
            IN (CountNL(ins.raw_line) > 0
                /\ ~EndsWithMarker(Trim(p.lines[ins.line_number + CountNL(ins.raw_line)])))
                  => ins.arguments = ExpectedArguments(p.lines, ins)

\* C4: no Instruction's arguments end with a continuation marker, also when
\* the input ends on a line that carries one.
C4_NoTrailingMarker ==
    p.pc = "done" =>
        \A k \in 1..Len(p.instructions) :
            ~EndsWithMarker(p.instructions[k].arguments)

\* C5: the k-th Instruction's line_number is the 1-indexed physical line at
\* which the k-th logical line starts, so line_numbers strictly increase.
C5_LineNumbers ==
    p.pc = "done" =>
    LET starts == LogicalStarts(Lines(content))
    IN /\ Len(p.instructions) <= Cardinality(starts)
       /\ \A k \in 1..Len(p.instructions) :
            p.instructions[k].line_number = NthSmallest(starts, k)
       /\ \A k \in 1..(Len(p.instructions) - 1) :
            p.instructions[k].line_number < p.instructions[k + 1].line_number

\* C5 witness: a first Instruction built from lines 1-2 and a second one that
\* starts at line 3.
C5_Witness ==
    /\ p.pc = "done"
    /\ Len(p.instructions) = 2
    /\ p.instructions[1].line_number = 1
    /\ CountNL(p.instructions[1].raw_line) = 1
    /\ p.instructions[2].line_number = 3

\* Parsing ins.raw_line again yields one Instruction with the name, arguments
\* and raw_line of ins.
RoundTrips(ins) ==
    LET again == ParseContent(ins.raw_line)
    IN /\ Len(again) = 1
       /\ again[1].name = ins.name
       /\ again[1].arguments = ins.arguments
       /\ again[1].raw_line = ins.raw_line

\* C6 as stated: every Instruction parse_content produces round-trips.
C6_RoundTripAll ==
    p.pc = "done" =>
    \A k \in 1..Len(p.instructions) : RoundTrips(p.instructions[k])

\* C6 as amended: every Instruction whose raw_line does not end with a newline
\* (its last absorbed physical line is not blank) round-trips.
C6_RoundTripUnlessBlankTail ==
    p.pc = "done" =>
    \A k \in 1..Len(p.instructions) :
        LET raw == p.instructions[k].raw_line
        IN raw[Len(raw)] # NL => RoundTrips(p.instructions[k])

\* C6 witness: an Instruction built from two physical lines, the second not
\* blank, has been returned.
C6_Witness ==
    /\ p.pc = "done"
    /\ \E k \in 1..Len(p.instructions) :
         LET raw == p.instructions[k].raw_line
         IN CountNL(raw) = 1 /\ raw[Len(raw)] # NL

\* C7: get_instructions(name) is the Instructions whose name equals name in
\* any ASCII case, in sequence order, and has_instruction(name) holds exactly
\* when that list is not empty.
C7_Queries ==
    q.asked =>
        LET named == {k \in 1..Len(p.instructions) :
                        ToUppercase(p.instructions[k].name) = ToUppercase(q.name)}
        IN /\ Len(q.result) = Cardinality(named)
           /\ \A j \in 1..Len(q.result) :
                q.result[j] = p.instructions[NthSmallest(named, j)]
           /\ q.has <=> Len(q.result) > 0

\* C7 witness: a lower-case name selects two of three Instructions.
C7_Witness ==
    /\ q.asked
    /\ q.name = <<"r","u","n">>
    /\ Len(p.instructions) = 3
    /\ Len(q.result) = 2

(***************************************************************************)
(* C8..C10: the report's issue order and its scores.                       *)
(***************************************************************************)
\* The place of a rule in the list its pipeline runs.
WiringPlace(id) ==
    IF \E k \in 1..Len(DockerfileRules) : DockerfileRules[k] = id
    THEN CHOOSE k \in 1..Len(DockerfileRules) : DockerfileRules[k] = id
    ELSE CHOOSE k \in 1..Len(ComposeRules) : ComposeRules[k] = id

\* All Critical before all Warning before all Suggestion.
DescendingSeverity(issues) ==
    \A i, j \in 1..Len(issues) :
        i < j => SeverityRank(issues[i].severity) >= SeverityRank(issues[j].severity)

\* Issues of equal severity stand in emission order: by the wiring order of
\* their rules, and within one rule in the order the rule returned them.
EmissionOrderWithinSeverity(issues) ==
    \A i, j \in 1..Len(issues) :
        (i < j /\ issues[i].severity = issues[j].severity) =>
            \/ WiringPlace(issues[i].rule_id) < WiringPlace(issues[j].rule_id)
            \/ /\ issues[i].rule_id = issues[j].rule_id
               /\ issues[i].line_number < issues[j].line_number

\* The issues of each severity are the same, in the same order, in both lists.
SameOrderWithinSeverity(before, after) ==
    /\ Len(before) = Len(after)
    /\ \A k \in 1..3 :
         SelectSeq(before, LAMBDA x : x.severity = Severities[k])
           = SelectSeq(after, LAMBDA x : x.severity = Severities[k])

\* C8: in every Report the issues are in descending severity, and issues of
\* equal severity keep the order in which they were emitted (rule wiring
\* order, then per-rule emission order).
C8_SortedBySeverityStable ==
    /\ [][(a.stage = "collected" /\ a'.stage = "sorted")
             => SameOrderWithinSeverity(a.issues, a'.issues)]_vars
    /\ [](a.stage \in {"sorted", "report"} =>
             /\ DescendingSeverity(a.issues)
             /\ EmissionOrderWithinSeverity(a.issues))

\* C8 witness: a Report whose issues the sort reordered, with two Critical
\* issues of one rule and a Critical one of a later rule.
C8_Witness ==
    /\ a.stage = "report"
    /\ a.issues # ExtendAll(DockerfileRules, found)
    /\ \E i, j, k \in 1..Len(a.issues) :
         /\ i < j /\ j < k
         /\ a.issues[i].rule_id = "DF001" /\ a.issues[j].rule_id = "DF001"
         /\ a.issues[k].rule_id = "DF006"

\* The score the specification gives a category: 10 less 3, 2 or 1 per
\* Critical, Warning or Suggestion issue of the category, floored at 0.
ExpectedCategoryScore(issues, rule_ids) ==
    LET left == 10 - Deducted(issues, rule_ids, Len(issues))
    IN IF left > 0 THEN left ELSE 0

\* C9: for every issue list, whatever its length, each category score is
\* max(0, 10 - (3*#Critical + 2*#Warning + #Suggestion)) over the category's
\* issues and lies in 0..10, although the running total is an i8.
C9_CategoryScores ==
    /\ a.stage # "panicked"
    /\ a.stage = "report" =>
         /\ a.scores.security.current
              = ExpectedCategoryScore(a.issues, SecurityRules)
         /\ a.scores.performance.current
              = ExpectedCategoryScore(a.issues, PerformanceRules)
         /\ a.scores.maintainability.current
              = ExpectedCategoryScore(a.issues, MaintainabilityRules)
         /\ \A c \in {"security", "performance", "maintainability"} :
              a.scores[c].current \in 0..10

\* C10: for every issue list, overall.current is
\* floor((4*security + 3*performance + 3*maintainability) / 10), computed
\* without saturation or overflow, so it lies in 0..10 and is 10 only when the
\* three category scores are; one Critical security issue gives 7, 10, 10, 8.
C10_OverallScore ==
    a.stage = "report" =>
        LET sec == a.scores.security.current
            perf == a.scores.performance.current
            maint == a.scores.maintainability.current
            overall == a.scores.overall.current
        IN /\ overall = (4 * sec + 3 * perf + 3 * maint) \div 10
           /\ overall \in 0..10
           /\ overall = 10 => (sec = 10 /\ perf = 10 /\ maint = 10)
           /\ (Len(a.issues) = 1 /\ a.issues[1].severity = "Critical"
                 /\ a.issues[1].rule_id \in SecurityRules)
                => (sec = 7 /\ perf = 10 /\ maint = 10 /\ overall = 8)

(***************************************************************************)
(* C11: the category tables against the wired rules.                       *)
(***************************************************************************)
\* The categories that count an issue.
CategoriesOf(issue) ==
    { c \in {"security", "performance", "maintainability"} :
        issue.rule_id \in (CASE c = "security" -> SecurityRules
                             [] c = "performance" -> PerformanceRules
                             [] c = "maintainability" -> MaintainabilityRules) }

\* C11: the three category rule-id sets are pairwise disjoint and together
\* hold the id of every wired rule, so every issue of a Report is counted in
\* exactly one category score.
C11_CategoriesPartitionRules ==
    /\ SecurityRules \cap PerformanceRules = {}
    /\ SecurityRules \cap MaintainabilityRules = {}
    /\ PerformanceRules \cap MaintainabilityRules = {}
    /\ RuleSet(DockerfileRules) \cup RuleSet(ComposeRules)
         \subseteq SecurityRules \cup PerformanceRules \cup MaintainabilityRules
    /\ a.stage \in {"collected", "sorted", "report"} =>
         \A k \in 1..Len(a.issues) : Cardinality(CategoriesOf(a.issues[k])) = 1

\* C11 witness: a descriptor Report with an issue of every Compose rule.
C11_Witness ==
    /\ a.stage = "report"
    /\ a.kind = "compose"
    /\ \A id \in RuleSet(ComposeRules) :
         \E k \in 1..Len(a.issues) : a.issues[k].rule_id = id

(***************************************************************************)
(* The Dockerfile rules.  A rule's check reads the parsed Instructions and *)
(* returns issues [rule_id, severity, line_number, message]; an absent     *)
(* line_number (None) is <<>>, Some(n) is <<n>>.                           *)
(***************************************************************************)
\* Lines of the Dockerfiles given to the rules.
MaxRuleLines == 3

\* A string literal as the sequence of its characters.
Chars(str) == [k \in 1..Len(str) |-> SubSeq(str, k, k)]

\* str::to_lowercase on ASCII.
ToLowercase(s) == [k \in 1..Len(s) |-> ToLowerChar(s[k])]

\* str::starts_with.
StartsWith(s, prefix) ==
    /\ Len(prefix) <= Len(s)
    /\ SubSeq(s, 1, Len(prefix)) = prefix

\* str::ends_with.
EndsWith(s, suffix) ==
    /\ Len(suffix) <= Len(s)
    /\ SubSeq(s, Len(s) - Len(suffix) + 1, Len(s)) = suffix

\* str::contains(&str).
Contains(s, sub) ==
    \E k \in 1..(Len(s) - Len(sub) + 1) : SubSeq(s, k, k + Len(sub) - 1) = sub

\* str::contains(char).
ContainsChar(s, c) == \E k \in 1..Len(s) : s[k] = c

\* Option<usize>.
None == <<>>
Some(n) == <<n>>

\* Issue { rule_id, severity: self.severity(), line_number, message, .. }.
Issue(id, line, msg) ==
    [rule_id |-> id, rule_name |-> RuleName(id),
     severity |-> RuleSeverity(id),
     line_number |-> line, message |-> msg]

\* Mutant of RootUserCheck: the first USER instruction inspected.
RootUserCheckFirstUser(instructions) ==
    LET user_instructions == GetInstructions(instructions, Chars("USER"))
    IN IF user_instructions = <<>>
       THEN <<Issue("DF002", None,
                Chars("No USER instruction found - container will run as root"))>>
       ELSE LET last_user == user_instructions[1]
                user == ToLowercase(Trim(last_user.arguments))
            IN IF user = Chars("root") \/ user = Chars("0")
               THEN <<Issue("DF002", Some(last_user.line_number),
                        Chars("Container explicitly set to run as root"))>>
               ELSE <<>>

\* RootUserRule::check (root_user.rs lines 38-75).
RootUserCheck(instructions) ==
    LET user_instructions == GetInstructions(instructions, Chars("USER"))
    IN IF user_instructions = <<>>
       THEN <<Issue("DF002", None,
                Chars("No USER instruction found - container will run as root"))>>
       ELSE LET last_user == user_instructions[Len(user_instructions)]
                user == ToLowercase(Trim(last_user.arguments))
            IN IF user = Chars("root") \/ user = Chars("0")
               THEN <<Issue("DF002", Some(last_user.line_number),
                        Chars("Container explicitly set to run as root"))>>
               ELSE <<>>

\* Mutant of HealthcheckCheck: the issue emitted when the directive exists.
HealthcheckCheckInverted(instructions) ==
    IF HasInstruction(instructions, Chars("HEALTHCHECK"))
    THEN <<Issue("DF005", None,
             Chars("No HEALTHCHECK instruction - container health cannot be monitored"))>>
    ELSE <<>>

\* HealthcheckRule::check (healthcheck.rs lines 37-54).
HealthcheckCheck(instructions) ==
    IF ~HasInstruction(instructions, Chars("HEALTHCHECK"))
    THEN <<Issue("DF005", None,
             Chars("No HEALTHCHECK instruction - container health cannot be monitored"))>>
    ELSE <<>>

\* The compilation commands MultistageRule looks for (multistage.rs lines
\* 50-60).
CompileCommands ==
    { Chars("go build"), Chars("cargo build"), Chars("mvn package"),
      Chars("gradle build"), Chars("npm run build"), Chars("yarn build"),
      Chars("make "), Chars("gcc "), Chars("g++ "), Chars("rustc "),
      Chars("javac ") }

\* The closure of has_compile: a RUN whose lower-cased arguments contain a
\* compilation command.
IsCompileRun(i) ==
    IF i.name # Chars("RUN") THEN FALSE
    ELSE LET args == ToLowercase(i.arguments)
         IN \E cmd \in CompileCommands : Contains(args, cmd)

\* Mutant of MultistageCheck: the stage count not looked at.
MultistageCheckAnyStageCount(instructions) ==
    IF \E k \in 1..Len(instructions) : IsCompileRun(instructions[k])
    THEN <<Issue("DF008", None,
             Chars("Single-stage build with compilation detected - consider multi-stage build"))>>
    ELSE <<>>

\* MultistageRule::check (multistage.rs lines 37-78).
MultistageCheck(instructions) ==
    LET from_count == Len(GetInstructions(instructions, Chars("FROM")))
        has_compile == \E k \in 1..Len(instructions) : IsCompileRun(instructions[k])
    IN IF from_count <= 1 /\ has_compile
       THEN <<Issue("DF008", None,
                Chars("Single-stage build with compilation detected - consider multi-stage build"))>>
       ELSE <<>>

\* The dependency-manifest file names of is_dependency_file_copy.
DependencyFiles ==
    { Chars("package.json"), Chars("package-lock.json"), Chars("yarn.lock"),
      Chars("requirements.txt"), Chars("Pipfile"), Chars("Pipfile.lock"),
      Chars("Gemfile"), Chars("Gemfile.lock"), Chars("go.mod"), Chars("go.sum"),
      Chars("Cargo.toml"), Chars("Cargo.lock"), Chars("pom.xml"),
      Chars("build.gradle"), Chars("composer.json"), Chars("composer.lock") }

\* is_dependency_file_copy (layer_order.rs lines 85-106).
IsDependencyFileCopy(args) == \E f \in DependencyFiles : Contains(args, f)

\* The package-install commands of is_package_install.
InstallCommands ==
    { Chars("apt-get install"), Chars("apk add"), Chars("npm install"),
      Chars("npm ci"), Chars("yarn install"), Chars("pip install"),
      Chars("gem install"), Chars("go mod download"), Chars("cargo build"),
      Chars("mvn install"), Chars("gradle build"), Chars("composer install") }

\* is_package_install (layer_order.rs lines 108-121).
IsPackageInstall(args) == \E cmd \in InstallCommands : Contains(args, cmd)

\* The COPY | ADD arm: whether the instruction sets found_broad_copy (lines
\* 49-58).
SetsBroadCopy(args) ==
    \/ Contains(args, Chars(". ")) \/ StartsWith(args, Chars(". "))
    \/ args = Chars(".")
    \/ ~IsDependencyFileCopy(args) /\ ~Contains(args, Chars("--from="))

\* The loop of LayerOrderRule::check from instruction k on, with the locals
\* found_broad_copy and copy_line.
RECURSIVE LayerOrderLoop(_, _, _, _)
LayerOrderLoop(instructions, k, found_broad_copy, copy_line) ==
    IF k > Len(instructions) THEN <<>>
    ELSE LET instruction == instructions[k]
         IN IF instruction.name \in {Chars("COPY"), Chars("ADD")}
            THEN IF SetsBroadCopy(instruction.arguments)
                 THEN LayerOrderLoop(instructions, k + 1, TRUE,
                                     Some(instruction.line_number))
                 ELSE LayerOrderLoop(instructions, k + 1,
                                     found_broad_copy, copy_line)
            ELSE IF /\ instruction.name = Chars("RUN")
                    /\ found_broad_copy
                    /\ IsPackageInstall(ToLowercase(instruction.arguments))
                 THEN <<Issue("DF004", copy_line,
                          Chars("COPY of source files before package installation invalidates cache"))>>
                 ELSE LayerOrderLoop(instructions, k + 1,
                                     found_broad_copy, copy_line)

\* LayerOrderRule::check (layer_order.rs lines 37-83).
LayerOrderCheck(instructions) == LayerOrderLoop(instructions, 1, FALSE, None)

\* args.split_whitespace().next().unwrap_or(""): the first token.
RECURSIVE TakeUntilWhitespace(_)
TakeUntilWhitespace(s) ==
    IF s = <<>> \/ IsWhitespace(Head(s)) THEN <<>>
    ELSE <<Head(s)>> \o TakeUntilWhitespace(Tail(s))

FirstToken(args) == TakeUntilWhitespace(TrimStart(args))

\* s.split(c).next(): the part of s before the first c.
RECURSIVE BeforeFirst(_, _)
BeforeFirst(s, c) ==
    IF s = <<>> \/ Head(s) = c THEN <<>>
    ELSE <<Head(s)>> \o BeforeFirst(Tail(s), c)

\* s.rsplit(c).next(): the part of s after the last c.
RECURSIVE AfterLast(_, _)
AfterLast(s, c) ==
    IF s = <<>> \/ s[Len(s)] = c THEN <<>>
    ELSE Append(AfterLast(SubSeq(s, 1, Len(s) - 1), c), s[Len(s)])

\* The issue lists of the iterations of a rule's loop, appended in order.
RECURSIVE Flatten(_)
Flatten(lists) ==
    IF lists = <<>> THEN <<>> ELSE Head(lists) \o Flatten(Tail(lists))

\* LARGE_IMAGES (large_base_image.rs lines 5-12).
LargeImages ==
    { Chars("ubuntu"), Chars("debian"), Chars("centos"), Chars("fedora"),
      Chars("amazonlinux"), Chars("oraclelinux") }

\* SLIM_ALTERNATIVES (lines 14-21), in order.
SlimAlternatives ==
    << <<Chars("ubuntu"), Chars("ubuntu:*-slim or alpine")>>,
       <<Chars("debian"), Chars("debian:*-slim or alpine")>>,
       <<Chars("node"), Chars("node:*-alpine or node:*-slim")>>,
       <<Chars("python"), Chars("python:*-alpine or python:*-slim")>>,
       <<Chars("golang"), Chars("golang:*-alpine")>>,
       <<Chars("ruby"), Chars("ruby:*-alpine or ruby:*-slim")>> >>

\* The body of the loop of LargeBaseImageRule::check for one FROM (lines
\* 60-92).
LargeBaseImageIssues(instruction) ==
    LET image_ref == FirstToken(instruction.arguments)
        image_name == BeforeFirst(image_ref, ":")
        image_name_lower == ToLowercase(image_name)
        base_name == AfterLast(image_name_lower, "/")
        alternatives == { k \in 1..Len(SlimAlternatives) :
                            StartsWith(base_name, SlimAlternatives[k][1]) }
    IN IF base_name \in LargeImages
       THEN <<Issue("DF009", Some(instruction.line_number),
                Chars("'") \o image_name
                  \o Chars("' is a large base image - consider alpine or slim variants"))>>
       ELSE IF /\ ~Contains(image_ref, Chars("alpine"))
               /\ ~Contains(image_ref, Chars("slim"))
               /\ ~Contains(image_ref, Chars("distroless"))
               /\ alternatives # {}
            THEN LET suggestion ==
                       SlimAlternatives[CHOOSE k \in alternatives :
                                          \A j \in alternatives : k <= j][2]
                 IN <<Issue("DF009", Some(instruction.line_number),
                          Chars("Consider using ") \o suggestion \o Chars(" for '")
                            \o image_name \o Chars("' to reduce image size"))>>
            ELSE <<>>

\* LargeBaseImageRule::check (large_base_image.rs lines 55-96).
LargeBaseImageCheck(instructions) ==
    LET froms == GetInstructions(instructions, Chars("FROM"))
    IN Flatten([k \in 1..Len(froms) |-> LargeBaseImageIssues(froms[k])])

\* The longest prefix of s made of characters outside the set stop.
RECURSIVE PrefixOutside(_, _)
PrefixOutside(s, stop) ==
    IF s = <<>> \/ Head(s) \in stop THEN <<>>
    ELSE <<Head(s)>> \o PrefixOutside(Tail(s), stop)

\* EXPLICIT_TAG_RE.is_match, ^[^:@\s]+:[^@\s]+ (latest_tag.rs lines 11-13):
\* a non-empty run without ':', '@' or whitespace, a ':', and one more
\* character that is neither '@' nor whitespace.
ExplicitTagReIsMatch(s) ==
    LET n == Len(PrefixOutside(s, {":", "@", " ", "\t"}))
    IN /\ n >= 1
       /\ n + 2 <= Len(s)
       /\ s[n + 1] = ":"
       /\ s[n + 2] \notin {"@", " ", "\t"}

\* common_images (latest_tag.rs line 65).
CommonImages ==
    { Chars("alpine"), Chars("ubuntu"), Chars("debian"), Chars("node"),
      Chars("python"), Chars("golang"), Chars("rust"), Chars("nginx"),
      Chars("redis"), Chars("postgres"), Chars("mysql") }

\* Lines 62-69: the reference is skipped as a build stage reference.
IsStageReference(image_ref) ==
    /\ ~ContainsChar(image_ref, "/")
    /\ ~ContainsChar(image_ref, ":")
    /\ ~ContainsChar(image_ref, ".")
    /\ ~\E img \in CommonImages : StartsWith(image_ref, img)

\* The body of the loop of LatestTagRule::check for one FROM (lines 53-95).
LatestTagIssues(instruction) ==
    LET image_ref == FirstToken(instruction.arguments)
    IN IF image_ref = Chars("scratch") THEN <<>>
       ELSE IF IsStageReference(image_ref) THEN <<>>
       ELSE IF EndsWith(image_ref, Chars(":latest"))
            THEN <<Issue("DF001", Some(instruction.line_number),
                     Chars("Image '") \o image_ref
                       \o Chars("' explicitly uses ':latest' tag"))>>
       ELSE IF ~ExplicitTagReIsMatch(image_ref) /\ ~ContainsChar(image_ref, "@")
            THEN <<Issue("DF001", Some(instruction.line_number),
                     Chars("Image '") \o image_ref
                       \o Chars("' has no tag (implicitly uses 'latest')"))>>
       ELSE <<>>

\* Mutant of LatestTagCheck: only the first FROM is checked.
LatestTagCheckFirstStage(instructions) ==
    LET froms == GetInstructions(instructions, Chars("FROM"))
    IN IF froms = <<>> THEN <<>> ELSE LatestTagIssues(froms[1])

\* LatestTagRule::check (latest_tag.rs lines 48-99).
LatestTagCheck(instructions) ==
    LET froms == GetInstructions(instructions, Chars("FROM"))
    IN Flatten([k \in 1..Len(froms) |-> LatestTagIssues(froms[k])])

(***************************************************************************)
(* Inputs of the rule runs: Dockerfiles of up to MaxRuleLines lines, the   *)
(* lines of one file taken from the lines that matter to one rule.         *)
(***************************************************************************)
RootUserLines ==
    { Chars("FROM a"), Chars("USER root"), Chars("USER app"),
      Chars(" user  Root "), Chars("USER 0"), Chars("USER 00") }

HealthcheckLines ==
    { Chars("FROM a"), Chars("HEALTHCHECK NONE"), Chars("healthcheck CMD x"),
      Chars("RUN healthcheck"), Chars("HEALTHCHECK") }

MultistageLines ==
    { Chars("FROM a"), Chars("RUN GO BUILD"), Chars("RUN make x"),
      Chars("RUN make"), Chars("RUN npm ci"), Chars("COPY gcc x"),
      Chars("run gcc a.c") }

LayerOrderLines ==
    { Chars("COPY . /a"), Chars("COPY go.mod ./"), Chars("COPY --from=b /a /a"),
      Chars("COPY --from=b /a/. /a"), Chars("ADD src /a"),
      Chars("RUN npm ci"), Chars("RUN ls") }

LargeBaseImageLines ==
    { Chars("FROM ubuntu:20.04"), Chars("FROM node:18-alpine"),
      Chars("FROM r:5/Ubuntu:1"), Chars("FROM g/debian"), Chars("FROM node:18"),
      Chars("FROM ubuntu:slim"), Chars("RUN ls") }

LatestTagLines ==
    { Chars("FROM node:latest"), Chars("FROM node:18"),
      Chars("FROM node@sha256:ab"), Chars("FROM scratch"), Chars("FROM node"),
      Chars("FROM node:18 AS nodebuilder"), Chars("FROM nodebuilder"),
      Chars("FROM builder"), Chars("FROM r/app") }

RuleLineSets ==
    { RootUserLines, HealthcheckLines, MultistageLines, LayerOrderLines,
      LargeBaseImageLines, LatestTagLines }

RuleContents ==
    UNION { { JoinNL(ls) : ls \in SeqsUpTo(L, MaxRuleLines) } : L \in RuleLineSets }

(***************************************************************************)
(* The rule specification: a Dockerfile is parsed and one rule checks it.  *)
(***************************************************************************)
\* analyze_dockerfile line 92: DockerfileParser::parse.
ParseDockerfile ==
    /\ a.stage = "idle"
    /\ \E text \in RuleContents :
         /\ content' = text
         /\ p' = ParseRun(InitParser(text))
    /\ a' = [stage |-> "parsed"]
    /\ UNCHANGED <<q, found, compose>>

\* analyze_dockerfile line 97: LatestTagRule.check(&parser, context_dir).
CheckLatestTag ==
    /\ a.stage = "parsed"
    /\ found' = [id \in {"DF001"} |-> LatestTagCheck(p.instructions)]
    /\ a' = [stage |-> "checked", rule |-> "DF001"]
    /\ UNCHANGED <<content, p, q, compose>>

\* analyze_dockerfile line 98: RootUserRule.check(&parser, context_dir).
CheckRootUser ==
    /\ a.stage = "parsed"
    /\ found' = [id \in {"DF002"} |-> RootUserCheck(p.instructions)]
    /\ a' = [stage |-> "checked", rule |-> "DF002"]
    /\ UNCHANGED <<content, p, q, compose>>

\* analyze_dockerfile line 100: LayerOrderRule.check(&parser, context_dir).
CheckLayerOrder ==
    /\ a.stage = "parsed"
    /\ found' = [id \in {"DF004"} |-> LayerOrderCheck(p.instructions)]
    /\ a' = [stage |-> "checked", rule |-> "DF004"]
    /\ UNCHANGED <<content, p, q, compose>>

\* analyze_dockerfile line 101: HealthcheckRule.check(&parser, context_dir).
CheckHealthcheck ==
    /\ a.stage = "parsed"
    /\ found' = [id \in {"DF005"} |-> HealthcheckCheck(p.instructions)]
    /\ a' = [stage |-> "checked", rule |-> "DF005"]
    /\ UNCHANGED <<content, p, q, compose>>

\* analyze_dockerfile line 104: MultistageRule.check(&parser, context_dir).
CheckMultistage ==
    /\ a.stage = "parsed"
    /\ found' = [id \in {"DF008"} |-> MultistageCheck(p.instructions)]
    /\ a' = [stage |-> "checked", rule |-> "DF008"]
    /\ UNCHANGED <<content, p, q, compose>>

\* analyze_dockerfile line 105: LargeBaseImageRule.check(&parser, context_dir).
CheckLargeBaseImage ==
    /\ a.stage = "parsed"
    /\ found' = [id \in {"DF009"} |-> LargeBaseImageCheck(p.instructions)]
    /\ a' = [stage |-> "checked", rule |-> "DF009"]
    /\ UNCHANGED <<content, p, q, compose>>

NextRules ==
    \/ ParseDockerfile
    \/ CheckLatestTag
    \/ CheckRootUser
    \/ CheckLayerOrder
    \/ CheckHealthcheck
    \/ CheckMultistage
    \/ CheckLargeBaseImage

SpecRules == Init /\ [][NextRules]_vars

(***************************************************************************)
(* C12..C18: the Dockerfile rules against what is said of them.            *)
(***************************************************************************)
\* The positions of the directives of a keyword in the parsed file.
Directives(keyword) ==
    { k \in 1..Len(p.instructions) : p.instructions[k].name = Chars(keyword) }

\* The largest element of a non-empty set of numbers.
Last(S) == CHOOSE k \in S : \A j \in S : j <= k

\* The issues a rule's check returned once it has run.
Checked(id) == a.stage = "checked" /\ a.rule = id

\* The issues among issues that are anchored at a line.
IssuesAt(issues, line) ==
    SelectSeq(issues, LAMBDA x : x.line_number = Some(line))

\* C12: RootUserRule emits at most one issue: one without line_number when
\* there is no USER directive; otherwise one at the last USER directive's
\* line if and only if its argument, trimmed and case-folded, is "root" or
\* "0"; earlier USER directives do not matter.
C12_RootUser ==
    Checked("DF002") =>
        LET issues == found["DF002"]
            users == Directives("USER")
        IN /\ Len(issues) <= 1
           /\ users = {} =>
                (Len(issues) = 1 /\ issues[1].line_number = None)
           /\ users # {} =>
                LET last_user == p.instructions[Last(users)]
                    user == ToLowercase(Trim(last_user.arguments))
                IN IF user \in {Chars("root"), Chars("0")}
                   THEN /\ Len(issues) = 1
                        /\ issues[1].line_number = Some(last_user.line_number)
                   ELSE issues = <<>>

\* C12 witness: root is set first and a non-root user last; no issue.
C12_Witness ==
    /\ Checked("DF002")
    /\ Cardinality(Directives("USER")) >= 2
    /\ \E k \in Directives("USER") :
         /\ k < Last(Directives("USER"))
         /\ ToLowercase(p.instructions[k].arguments) = Chars("root")
    /\ p.instructions[Last(Directives("USER"))].arguments = Chars("app")
    /\ found["DF002"] = <<>>

\* The image reference of a FROM directive: its first token.
ImageReference(k) == FirstToken(p.instructions[k].arguments)

\* The part of a reference after its last '/'.
LastSegment(ref) == AfterLast(ref, "/")

\* A reference with a digest (name@sha256:...).
HasDigest(ref) == Contains(ref, Chars("@sha256:"))

\* A reference name:tag without digest whose tag is not "latest".
HasOtherExplicitTag(ref) ==
    /\ ~ContainsChar(ref, "@")
    /\ ContainsChar(LastSegment(ref), ":")
    /\ AfterLast(ref, ":") \notin {<<>>, Chars("latest")}
    /\ BeforeFirst(LastSegment(ref), ":") # <<>>

\* C13: LatestTagRule emits at most one issue per FROM directive: exactly
\* one, with a message containing "latest", when the image reference ends
\* with ":latest"; none when the reference has an explicit tag other than
\* latest, or a digest, or is "scratch".
C13_LatestTag ==
    Checked("DF001") =>
        LET issues == found["DF001"]
            froms == Directives("FROM")
        IN /\ Len(issues) <= Cardinality(froms)
           /\ \A k \in 1..Len(issues) :
                \E f \in froms :
                    issues[k].line_number = Some(p.instructions[f].line_number)
           /\ \A f \in froms :
                LET ref == ImageReference(f)
                    at == IssuesAt(issues, p.instructions[f].line_number)
                IN /\ Len(at) <= 1
                   /\ EndsWith(ref, Chars(":latest")) =>
                        (Len(at) = 1 /\ Contains(at[1].message, Chars("latest")))
                   /\ ( \/ HasOtherExplicitTag(ref)
                        \/ HasDigest(ref)
                        \/ ref = Chars("scratch") ) => at = <<>>

\* C13 witness: a file with a ":latest" FROM that is flagged and a digest
\* FROM that is not.
C13_Witness ==
    /\ Checked("DF001")
    /\ Len(found["DF001"]) = 1
    /\ \E f, g \in Directives("FROM") :
         /\ EndsWith(ImageReference(f), Chars(":latest"))
         /\ HasDigest(ImageReference(g))

\* A reference without registry, tag or digest separator.
SeparatorFree(ref) ==
    /\ ref # <<>>
    /\ \A c \in {"/", ":", "@", "."} : ~ContainsChar(ref, c)

\* C14: a FROM whose reference has no registry, tag or digest separator is
\* flagged if and only if the reference is one of the eleven well-known base
\* names; any other such reference (a stage alias, also one that begins with
\* one of the names) is not flagged.
C14_StageReferences ==
    Checked("DF001") =>
        \A f \in Directives("FROM") :
            LET ref == ImageReference(f)
                at == IssuesAt(found["DF001"], p.instructions[f].line_number)
            IN SeparatorFree(ref) => ((at # <<>>) <=> (ref \in CommonImages))

\* A COPY or ADD that is a broad copy: not cross-stage (--from=) and not
\* naming a dependency-manifest file.
IsBroadCopy(ins) ==
    /\ ins.name \in {Chars("COPY"), Chars("ADD")}
    /\ ~Contains(ins.arguments, Chars("--from="))
    /\ ~\E f \in DependencyFiles : Contains(ins.arguments, f)

\* A RUN that contains a recognized package-install command.
IsInstallRun(ins) ==
    /\ ins.name = Chars("RUN")
    /\ \E cmd \in InstallCommands : Contains(ToLowercase(ins.arguments), cmd)

\* C15: LayerOrderRule emits at most one issue, and one if and only if a RUN
\* with a package-install command comes after a broad COPY/ADD; a manifest
\* copy and a cross-stage copy are never broad copies; the issue is anchored
\* at a broad copy that precedes that RUN; an install before every broad copy
\* is not flagged.
C15_LayerOrder ==
    Checked("DF004") =>
        LET issues == found["DF004"]
            ins == p.instructions
            bad == { k \in 1..Len(ins) :
                       /\ IsInstallRun(ins[k])
                       /\ \E j \in 1..(k - 1) : IsBroadCopy(ins[j]) }
        IN /\ Len(issues) <= 1
           /\ (Len(issues) = 1) <=> (bad # {})
           /\ Len(issues) = 1 =>
                \E k \in bad : \E j \in 1..(k - 1) :
                    /\ IsBroadCopy(ins[j])
                    /\ issues[1].line_number = Some(ins[j].line_number)

\* C16: MultistageRule emits nothing when there are two or more FROM
\* directives; otherwise exactly one issue (Suggestion, no line_number) if
\* and only if some RUN contains a recognized build-tool invocation, however
\* many RUN directives match.
C16_Multistage ==
    Checked("DF008") =>
        LET issues == found["DF008"]
            compiles == { k \in Directives("RUN") :
                            \E cmd \in CompileCommands :
                                Contains(ToLowercase(p.instructions[k].arguments), cmd) }
        IN IF Cardinality(Directives("FROM")) >= 2 THEN issues = <<>>
           ELSE IF compiles # {}
                THEN /\ Len(issues) = 1
                     /\ issues[1].severity = "Suggestion"
                     /\ issues[1].line_number = None
                ELSE issues = <<>>

\* C16 witness: one stage, two RUN directives that compile, one issue.
C16_Witness ==
    /\ Checked("DF008")
    /\ Cardinality(Directives("FROM")) = 1
    /\ Cardinality({ k \in Directives("RUN") :
                       Contains(ToLowercase(p.instructions[k].arguments),
                                Chars("go build")) \/
                       Contains(ToLowercase(p.instructions[k].arguments),
                                Chars("gcc ")) }) = 2
    /\ Len(found["DF008"]) = 1

\* C17: HealthcheckRule emits exactly one issue (Warning, no line_number) if
\* and only if the file has no HEALTHCHECK directive, and none otherwise.
C17_Healthcheck ==
    Checked("DF005") =>
        LET issues == found["DF005"]
        IN IF Directives("HEALTHCHECK") = {}
           THEN /\ Len(issues) = 1
                /\ issues[1].severity = "Warning"
                /\ issues[1].line_number = None
           ELSE issues = <<>>

\* C17 witness: a file whose only directive is a lower-case healthcheck; no
\* issue.
C17_Witness ==
    /\ Checked("DF005")
    /\ content = Chars("healthcheck CMD x")
    /\ Directives("HEALTHCHECK") # {}
    /\ found["DF005"] = <<>>

\* The bare image name of a reference: registry path and tag stripped,
\* lower-cased.
BareName(ref) == ToLowercase(BeforeFirst(LastSegment(ref), ":"))

\* C18: LargeBaseImageRule emits at most one issue per FROM directive, all
\* Suggestion: exactly one when the bare image name is in the known-large
\* list, none when it is not and the reference contains "alpine", "slim" or
\* "distroless".
C18_LargeBaseImage ==
    Checked("DF009") =>
        LET issues == found["DF009"]
            froms == Directives("FROM")
        IN /\ Len(issues) <= Cardinality(froms)
           /\ \A k \in 1..Len(issues) : issues[k].severity = "Suggestion"
           /\ \A f \in froms :
                LET ref == ImageReference(f)
                    at == IssuesAt(issues, p.instructions[f].line_number)
                IN /\ Len(at) <= 1
                   /\ BareName(ref) \in LargeImages => Len(at) = 1
                   /\ ( /\ BareName(ref) \notin LargeImages
                        /\ \/ Contains(ref, Chars("alpine"))
                           \/ Contains(ref, Chars("slim"))
                           \/ Contains(ref, Chars("distroless")) ) => at = <<>>

(***************************************************************************)
(* The Compose rules.  A ComposeFile is [services], None or Some of a map  *)
(* from service name to Service; a Service is [restart, deploy,            *)
(* environment], each an Option; an Environment is [shape, items, map]:    *)
(* a "List" of items, or a "Map" whose entries [key, value] have distinct  *)
(* keys and an Option value.  A HashMap is iterated in an order the code   *)
(* does not choose: order is that order.                                   *)
(***************************************************************************)
\* The orders in which a HashMap with the keys S may be iterated.
Orders(S) ==
    { o \in [1..Cardinality(S) -> S] :
        \A i, j \in 1..Cardinality(S) : i # j => o[i] # o[j] }

\* The pieces of s between the occurrences of c (str::split(c)).
RECURSIVE SplitOn(_, _, _)
SplitOn(s, c, cur) ==
    IF s = <<>> THEN <<cur>>
    ELSE IF Head(s) = c THEN <<cur>> \o SplitOn(Tail(s), c, <<>>)
    ELSE SplitOn(Tail(s), c, Append(cur, Head(s)))

\* Mutant of RestartPolicyIssues: the deploy section not looked at.
RestartPolicyIssuesDirectOnly(name, service) ==
    LET has_restart == service.restart # None
    IN IF ~has_restart
       THEN <<Issue("DC001", None,
                Chars("Service '") \o name \o Chars("' has no restart policy"))>>
       ELSE <<>>

\* The body of the loop of RestartPolicyRule::check for one service
\* (restart_policy.rs lines 42-58).
RestartPolicyIssues(name, service) ==
    LET has_restart ==
            \/ service.restart # None
            \/ IF service.deploy = None THEN FALSE
               ELSE service.deploy[1].restart_policy # None
    IN IF ~has_restart
       THEN <<Issue("DC001", None,
                Chars("Service '") \o name \o Chars("' has no restart policy"))>>
       ELSE <<>>

\* RestartPolicyRule::check (restart_policy.rs lines 37-64).
RestartPolicyCheck(file, order) ==
    IF file.services = None THEN <<>>
    ELSE LET services == file.services[1]
         IN Flatten([k \in 1..Len(order) |->
                        RestartPolicyIssues(order[k], services[order[k]])])

\* The alternatives of SECRET_PATTERN (hardcoded_secrets.rs lines 7-9);
\* "credentials?" matches wherever "credential" does.
SecretKeywords ==
    { Chars("password"), Chars("passwd"), Chars("secret"), Chars("api_key"),
      Chars("apikey"), Chars("auth_token"), Chars("access_token"),
      Chars("private_key"), Chars("credential") }

\* SECRET_PATTERN.is_match: (?i), unanchored.
SecretPatternIsMatch(s) ==
    \E kw \in SecretKeywords : Contains(ToLowercase(s), kw)

\* The closure over the items of Environment::List (lines 51-60).
ListItemIsHardcoded(item) ==
    IF SecretPatternIsMatch(item)
         /\ ContainsChar(item, "=") /\ ~Contains(item, Chars("${"))
    THEN LET pieces == SplitOn(item, "=", <<>>)
             value == IF Len(pieces) >= 2 THEN pieces[2] ELSE <<>>
         IN value # <<>>
    ELSE FALSE

\* The closure over the entries of Environment::Map (lines 64-72).
MapEntryIsHardcoded(key, value) ==
    IF SecretPatternIsMatch(key) /\ value # None
    THEN value[1] # <<>> /\ ~Contains(value[1], Chars("${"))
    ELSE FALSE

\* has_hardcoded_secret (lines 49-74).
HasHardcodedSecret(env) ==
    IF env.shape = "List"
    THEN \E k \in 1..Len(env.items) : ListItemIsHardcoded(env.items[k])
    ELSE \E k \in 1..Len(env.map) :
             MapEntryIsHardcoded(env.map[k].key, env.map[k].value)

\* The body of the loop of HardcodedSecretsRule::check for one service
\* (lines 48-87).
HardcodedSecretsIssues(name, service) ==
    IF service.environment = None THEN <<>>
    ELSE IF HasHardcodedSecret(service.environment[1])
         THEN <<Issue("DC005", None,
                  Chars("Service '") \o name
                    \o Chars("' has hardcoded secret in environment"))>>
         ELSE <<>>

\* HardcodedSecretsRule::check (hardcoded_secrets.rs lines 43-93).
HardcodedSecretsCheck(file, order) ==
    IF file.services = None THEN <<>>
    ELSE LET services == file.services[1]
         IN Flatten([k \in 1..Len(order) |->
                        HardcodedSecretsIssues(order[k], services[order[k]])])

(***************************************************************************)
(* Inputs of the Compose rule runs.                                        *)
(***************************************************************************)
ServiceNames == { Chars("web"), Chars("db") }

\* Services that differ in their restart settings.
RestartServices ==
    { [restart |-> r, deploy |-> d, environment |-> None] :
        r \in { None, Some(Chars("always")) },
        d \in { None, Some([restart_policy |-> None]),
                Some([restart_policy |-> Some(Chars("on-failure"))]) } }

\* Environment entries: a key and a value.
EnvEntries ==
    { [key |-> Chars("PASSWORD"), value |-> Chars("x")],
      [key |-> Chars("PASSWORD"), value |-> <<>>],
      [key |-> Chars("PASSWORD"), value |-> Chars("${V}")],
      [key |-> Chars("PASSWORD"), value |-> Chars("=b")],
      [key |-> Chars("FOO"), value |-> Chars("x")],
      [key |-> Chars("FOO"), value |-> Chars("secret")] }

\* The sequences of entries with pairwise distinct keys.
EntryLists ==
    { es \in SeqsUpTo(EnvEntries, Cardinality({e.key : e \in EnvEntries})) :
        \A i, j \in 1..Len(es) : i # j => es[i].key # es[j].key }

\* The entries declared as a list of KEY=VALUE items.
ListEnvironment(es) ==
    [shape |-> "List",
     items |-> [k \in 1..Len(es) |-> es[k].key \o <<"=">> \o es[k].value],
     map |-> <<>>]

\* The entries declared as a mapping from KEY to VALUE.
MapEnvironment(es) ==
    [shape |-> "Map", items |-> <<>>,
     map |-> [k \in 1..Len(es) |-> [key |-> es[k].key, value |-> Some(es[k].value)]]]

\* Services that differ in their environment.
SecretServices ==
    { [restart |-> None, deploy |-> None, environment |-> Some(env)] :
        env \in { ListEnvironment(es) : es \in EntryLists }
                  \cup { MapEnvironment(es) : es \in EntryLists } }

\* The descriptors: without a services mapping, or with services of one kind.
ComposeFiles ==
    { [services |-> None] }
      \cup { [services |-> Some(m)] :
               m \in UNION { [N -> S] : N \in SUBSET ServiceNames,
                                        S \in {RestartServices, SecretServices} } }

(***************************************************************************)
(* The Compose rule specification: a descriptor is parsed and one rule     *)
(* checks it.                                                              *)
(***************************************************************************)
\* The names of the services of a descriptor.
ServicesOf(file) ==
    IF file.services = None THEN {} ELSE DOMAIN file.services[1]

\* analyze_compose lines 121-123: ComposeParser::parse succeeds.
LoadCompose ==
    /\ a.stage = "idle"
    /\ \E file \in ComposeFiles : compose' = file
    /\ a' = [stage |-> "loaded"]
    /\ UNCHANGED <<content, p, q, found>>

\* analyze_compose line 128: RestartPolicyRule.check(&compose).
CheckRestartPolicy ==
    /\ a.stage = "loaded"
    /\ \E order \in Orders(ServicesOf(compose)) :
         found' = [id \in {"DC001"} |-> RestartPolicyCheck(compose, order)]
    /\ a' = [stage |-> "checked", rule |-> "DC001"]
    /\ UNCHANGED <<content, p, q, compose>>

\* analyze_compose line 132: HardcodedSecretsRule.check(&compose).
CheckHardcodedSecrets ==
    /\ a.stage = "loaded"
    /\ \E order \in Orders(ServicesOf(compose)) :
         found' = [id \in {"DC005"} |-> HardcodedSecretsCheck(compose, order)]
    /\ a' = [stage |-> "checked", rule |-> "DC005"]
    /\ UNCHANGED <<content, p, q, compose>>

NextCompose ==
    \/ LoadCompose
    \/ CheckRestartPolicy
    \/ CheckHardcodedSecrets

SpecCompose == Init /\ [][NextCompose]_vars

(***************************************************************************)
(* C19, C20: the Compose rules against what is said of them.               *)
(***************************************************************************)
\* The services with neither a restart field nor a deploy.restart_policy.
WithoutRestartPolicy ==
    { n \in ServicesOf(compose) :
        LET service == compose.services[1][n]
        IN /\ service.restart = None
           /\ \/ service.deploy = None
              \/ service.deploy[1].restart_policy = None }

\* The issues whose message names a service.
IssuesNaming(issues, name) ==
    SelectSeq(issues, LAMBDA x :
        Contains(x.message, Chars("'") \o name \o Chars("'")))

\* C19: RestartPolicyRule emits exactly one issue, naming the service, for
\* each service with neither a restart field nor a deploy.restart_policy,
\* and none for any other service; a descriptor without services yields none.
C19_RestartPolicy ==
    Checked("DC001") =>
        LET issues == found["DC001"]
        IN /\ compose.services = None => issues = <<>>
           /\ Len(issues) = Cardinality(WithoutRestartPolicy)
           /\ \A n \in ServicesOf(compose) :
                Len(IssuesNaming(issues, n))
                  = IF n \in WithoutRestartPolicy THEN 1 ELSE 0

\* C19 witness: one service has only an empty deploy section and is flagged,
\* the other has only a deploy.restart_policy and is not.
C19_Witness ==
    /\ Checked("DC001")
    /\ Len(found["DC001"]) = 1
    /\ \E n, m \in ServicesOf(compose) :
         /\ n \in WithoutRestartPolicy
         /\ compose.services[1][n].deploy # None
         /\ m \notin WithoutRestartPolicy
         /\ compose.services[1][m].restart = None

\* A service declares as a list what another declares as a mapping.
SameEntries(list_service, map_service) ==
    /\ list_service.environment # None
    /\ map_service.environment # None
    /\ LET l == list_service.environment[1]
           m == map_service.environment[1]
       IN /\ l.shape = "List"
          /\ m.shape = "Map"
          /\ Len(l.items) = Len(m.map)
          /\ { l.items[k] : k \in 1..Len(l.items) }
               = { m.map[k].key \o <<"=">> \o m.map[k].value[1] :
                     k \in 1..Len(m.map) }

\* C20: a service declaring environment entries as a KEY=VALUE list and a
\* service declaring the same keys and values as a mapping are flagged
\* identically by HardcodedSecretsRule.
C20_ShapeEquivalence ==
    Checked("DC005") =>
        \A n, m \in ServicesOf(compose) :
            SameEntries(compose.services[1][n], compose.services[1][m]) =>
                ( (IssuesNaming(found["DC005"], n) # <<>>)
                    <=> (IssuesNaming(found["DC005"], m) # <<>>) )

(***************************************************************************)
(* src/rules/registry.rs: the rule registry and the lookup by id.          *)
(***************************************************************************)
\* static DOCKERFILE_RULES.
DOCKERFILE_RULES ==
    <<"DF001", "DF002", "DF003", "DF004", "DF005",
      "DF006", "DF007", "DF008", "DF009", "DF010">>

\* static COMPOSE_RULES.
COMPOSE_RULES == <<"DC001", "DC002", "DC003", "DC004", "DC005">>

\* get_all_rules: the Dockerfile rules, then the Compose rules, each as the
\* RuleInfo [id, name, severity] the lookup returns.
GetAllRules ==
    [k \in 1..(Len(DOCKERFILE_RULES) + Len(COMPOSE_RULES)) |->
        LET id == (DOCKERFILE_RULES \o COMPOSE_RULES)[k]
        IN [id |-> id, name |-> RuleName(id), severity |-> RuleSeverity(id)]]

\* Mutant of GetRuleById: the id compared as given.
GetRuleByIdCaseSensitive(id) ==
    LET hits == {k \in DOMAIN GetAllRules : Chars(GetAllRules[k].id) = id}
    IN IF hits = {} THEN None
       ELSE Some(GetAllRules[CHOOSE k \in hits : \A j \in hits : k <= j])

\* get_rule_by_id: the first rule whose id is the upper-cased argument.
GetRuleById(id) ==
    LET upper_id == ToUppercase(id)
        hits == {k \in DOMAIN GetAllRules :
                    Chars(GetAllRules[k].id) = upper_id}
    IN IF hits = {} THEN None
       ELSE Some(GetAllRules[CHOOSE k \in hits : \A j \in hits : k <= j])

(***************************************************************************)
(* src/main.rs and Analyzer::analyze: one run of the command line.  The    *)
(* path argument is described by what the file system holds there.         *)
(***************************************************************************)
\* Option<Severity> as the flags --severity and --fail-on carry it.
OptionSeverity == {None} \cup {Some(Severities[k]) : k \in 1..3}

\* AnalyzeArgs, the flags that decide filtering and the exit code.
AnalyzeArgs == [severity : OptionSeverity, ci : BOOLEAN, fail_on : OptionSeverity]

\* The file names analyze looks for in a directory, in the order it tries them.
DirectoryCandidates ==
    <<"Dockerfile", "docker-compose.yml", "docker-compose.yaml",
      "compose.yml", "compose.yaml">>

\* File names given as the path argument.
FileNames ==
    {"Dockerfile", "Dockerfile.dev", "app_dockerfile", "mydockerfile",
     "Dockerfile.compose.yml", "docker-compose.yml", "compose.yaml",
     "compose.txt", "stack.yml", "notes"}

\* Contents of a file given as the path argument.
FileContents ==
    {"FROM a\nRUN b", "FROM a", "services:", "version: 3", "hello",
     "FROM a\nCMD b\nservices:"}

\* What the path argument names: nothing, a directory holding some of the
\* candidate files, or a file.  readable is whether read_to_string succeeds
\* on the file that gets analysed, deserializes whether serde_yaml accepts it.
Paths ==
    { [kind |-> "missing", path |-> "gone", entries |-> {}, content |-> "",
       readable |-> FALSE, deserializes |-> FALSE] }
    \cup
    { [kind |-> "dir", path |-> ".", entries |-> e, content |-> "",
       readable |-> TRUE, deserializes |-> d] :
         e \in SUBSET {DirectoryCandidates[k] : k \in 1..5}, d \in BOOLEAN }
    \cup
    { [kind |-> "file", path |-> n, entries |-> {}, content |-> c,
       readable |-> r, deserializes |-> d] :
         n \in FileNames, c \in FileContents, r \in BOOLEAN, d \in BOOLEAN }

\* Path::join.
PathJoin(dir, name) == dir \o "/" \o name

\* analyze lines 73 and 75: the detection by file name.
NameIsDockerfile(file_name) ==
    \/ file_name = Chars("Dockerfile")
    \/ StartsWith(file_name, Chars("Dockerfile."))
    \/ EndsWith(file_name, Chars("_dockerfile"))
    \/ EndsWith(file_name, Chars("dockerfile"))

NameIsCompose(file_name) ==
    /\ Contains(file_name, Chars("compose"))
    /\ \/ EndsWith(file_name, Chars(".yml"))
       \/ EndsWith(file_name, Chars(".yaml"))

\* analyze lines 80 and 82: the detection by content.
ContentIsDockerfile(text) ==
    /\ Contains(text, Chars("FROM "))
    /\ \/ Contains(text, Chars("RUN "))
       \/ Contains(text, Chars("COPY "))
       \/ Contains(text, Chars("CMD "))

ContentIsCompose(text) ==
    \/ Contains(text, Chars("services:"))
    \/ Contains(text, Chars("version:"))

\* What Analyze decides: the analysis it hands the file to, or the error it
\* returns; read is whether analyze itself read the file's content.
Handoff(to, path, read) ==
    [to |-> to, path |-> path, variant |-> "", message |-> "", read |-> read]

Failure(variant, message, read) ==
    [to |-> "Err", path |-> "", variant |-> variant, message |-> message,
     read |-> read]

\* Mutant of Analyze: in a directory the descriptor names are tried first.
AnalyzeDescriptorFirst(fs) ==
    IF fs.kind = "missing" THEN Failure("FileNotFound", fs.path, FALSE)
    ELSE IF fs.kind = "dir" THEN
        LET present == {k \in 1..5 : DirectoryCandidates[k] \in fs.entries}
            others == present \ {1}
            first == CHOOSE k \in others : \A j \in others : k <= j
        IN IF present = {} THEN
               Failure("FileNotFound",
                   "No Dockerfile or docker-compose.yml found in directory",
                   FALSE)
           ELSE IF others = {} THEN
               Handoff("analyze_dockerfile",
                       PathJoin(fs.path, DirectoryCandidates[1]), FALSE)
           ELSE Handoff("analyze_compose",
                        PathJoin(fs.path, DirectoryCandidates[first]), FALSE)
    ELSE IF NameIsDockerfile(Chars(fs.path)) THEN
        Handoff("analyze_dockerfile", fs.path, FALSE)
    ELSE IF NameIsCompose(Chars(fs.path)) THEN
        Handoff("analyze_compose", fs.path, FALSE)
    ELSE IF ~fs.readable THEN Failure("IoError", "read_to_string failed", FALSE)
    ELSE IF ContentIsDockerfile(Chars(fs.content)) THEN
        Handoff("analyze_dockerfile", fs.path, TRUE)
    ELSE IF ContentIsCompose(Chars(fs.content)) THEN
        Handoff("analyze_compose", fs.path, TRUE)
    ELSE Failure("UnknownFileType", fs.path, TRUE)

\* Analyzer::analyze up to the call of analyze_dockerfile / analyze_compose.
Analyze(fs) ==
    IF fs.kind = "missing" THEN Failure("FileNotFound", fs.path, FALSE)
    ELSE IF fs.kind = "dir" THEN
        LET present == {k \in 1..5 : DirectoryCandidates[k] \in fs.entries}
            first == CHOOSE k \in present : \A j \in present : k <= j
        IN IF present = {} THEN
               Failure("FileNotFound",
                   "No Dockerfile or docker-compose.yml found in directory",
                   FALSE)
           ELSE IF first = 1 THEN
               Handoff("analyze_dockerfile",
                       PathJoin(fs.path, DirectoryCandidates[1]), FALSE)
           ELSE Handoff("analyze_compose",
                        PathJoin(fs.path, DirectoryCandidates[first]), FALSE)
    ELSE IF NameIsDockerfile(Chars(fs.path)) THEN
        Handoff("analyze_dockerfile", fs.path, FALSE)
    ELSE IF NameIsCompose(Chars(fs.path)) THEN
        Handoff("analyze_compose", fs.path, FALSE)
    ELSE IF ~fs.readable THEN Failure("IoError", "read_to_string failed", FALSE)
    ELSE IF ContentIsDockerfile(Chars(fs.content)) THEN
        Handoff("analyze_dockerfile", fs.path, TRUE)
    ELSE IF ContentIsCompose(Chars(fs.content)) THEN
        Handoff("analyze_compose", fs.path, TRUE)
    ELSE Failure("UnknownFileType", fs.path, TRUE)

\* The rule results of the file main analyses: as in the report runs, with
\* one rule of each severity firing, and the long Dockerfile of MaxFromLines
\* FROM lines.
MainDockerfileCounts ==
    { [id \in RuleSet(DockerfileRules) |->
          CASE id = "DF001" -> x
            [] id = "DF005" -> y
            [] id = "DF008" -> z
            [] OTHER -> 0] :
      x \in 0..MaxPerRule, y \in 0..1, z \in {0} }
    \cup
    { [id \in RuleSet(DockerfileRules) |->
          CASE id = "DF001" -> x
            [] id = "DF005" -> y
            [] id = "DF008" -> 1
            [] OTHER -> 0] :
      x \in 0..1, y \in 0..1 }
    \cup { c \in LongDockerfileCounts : c["DF001"] = MaxFromLines }

MainComposeCounts ==
    { [id \in RuleSet(ComposeRules) |->
          CASE id = "DC001" -> x
            [] id = "DC002" -> y
            [] OTHER -> 0] :
      x \in 0..MaxPerRule, y \in 0..MaxPerRule }

\* Lines 113-117 and 139-143: the Report of the sorted issues.
ReportOf(path, sorted) ==
    [file_path |-> path,
     issues |-> sorted,
     scores |-> CalculateScores(sorted).scores]

\* Mutant of FilterIssues: only the issues above --severity kept.
FilterIssuesStrict(issues, severity) ==
    IF severity = None THEN issues
    ELSE SelectSeq(issues,
             LAMBDA issue :
                 SeverityRank(issue.severity) > SeverityRank(severity[1]))

\* main lines 23-30: the issues at or above --severity, or all of them.
FilterIssues(issues, severity) ==
    IF severity = None THEN issues
    ELSE SelectSeq(issues,
             LAMBDA issue :
                 SeverityRank(issue.severity) >= SeverityRank(severity[1]))

\* main lines 32-36: the Report that is printed.
FilteredReport(report, severity) ==
    [issues |-> FilterIssues(report.issues, severity),
     scores |-> report.scores,
     file_path |-> report.file_path]

\* Mutant of ExitCode: the exit code decided without regard to --ci.
ExitCodeWithoutCi(args, issues) ==
    LET fail_severity ==
            IF args.fail_on = None THEN "Critical" ELSE args.fail_on[1]
        has_failures ==
            \E k \in 1..Len(issues) :
                SeverityRank(issues[k].severity) >= SeverityRank(fail_severity)
    IN IF has_failures THEN 1 ELSE 0

\* main lines 56-63 and 84: the exit code after a Report was printed.
ExitCode(args, issues) ==
    LET fail_severity ==
            IF args.fail_on = None THEN "Critical" ELSE args.fail_on[1]
        has_failures ==
            \E k \in 1..Len(issues) :
                SeverityRank(issues[k].severity) >= SeverityRank(fail_severity)
    IN IF args.ci /\ has_failures THEN 1 ELSE 0

\* The ids given to the explain command.
ExplainIds ==
    { Chars(s) : s \in
        {"DF001", "df001", "Df001", "dF001", "DF010", "df010", "DC001",
         "dc001", "Dc005", "DC005", "DF011", "df011", "DF000", "DC006",
         "DX001", "", "latest"} }

\* main lines 12, 17 and 20: the analyze command and its path argument (the
\* other flags are drawn where main reads them).
AnalyzeCommand ==
    /\ a.stage = "idle"
    /\ \E fs \in Paths : a' = [stage |-> "analyze", fs |-> fs]
    /\ UNCHANGED <<content, p, q, found, compose>>

\* analyze lines 36-88, up to the hand-off or the error.
AnalyzePath ==
    /\ a.stage = "analyze"
    /\ a' = [stage |-> "dispatched", fs |-> a.fs,
             handoff |-> Analyze(a.fs)]
    /\ UNCHANGED <<content, p, q, found, compose>>

\* analyze lines 41, 63, 79 and 85: the error returned to main.
ReturnError ==
    /\ a.stage = "dispatched"
    /\ a.handoff.to = "Err"
    /\ a' = [stage |-> "returned", fs |-> a.fs, handoff |-> a.handoff,
             ok |-> FALSE,
             variant |-> a.handoff.variant, message |-> a.handoff.message]
    /\ UNCHANGED <<content, p, q, found, compose>>

\* analyze_dockerfile line 92: DockerfileParser::parse fails to read.
DockerfileReadError ==
    /\ a.stage = "dispatched"
    /\ a.handoff.to = "analyze_dockerfile"
    /\ ~a.fs.readable
    /\ a' = [stage |-> "returned", fs |-> a.fs, handoff |-> a.handoff,
             ok |-> FALSE,
             variant |-> "IoError", message |-> "read_to_string failed"]
    /\ UNCHANGED <<content, p, q, found, compose>>

\* analyze_dockerfile lines 90-118: the rules run and the Report is built
\* (arithmetic that overflows wraps in a build without overflow checks).
AnalyzeDockerfile ==
    /\ a.stage = "dispatched"
    /\ a.handoff.to = "analyze_dockerfile"
    /\ a.fs.readable
    /\ \E c \in MainDockerfileCounts :
       \E issues \in {ExtendAll(DockerfileRules, ResultsOf(DockerfileRules, c))} :
       \E sorted \in {SortBy(issues)} :
         /\ found' = ResultsOf(DockerfileRules, c)
         /\ a' = [stage |-> "returned", fs |-> a.fs, handoff |-> a.handoff,
                  ok |-> TRUE,
                  report |-> ReportOf(a.handoff.path, sorted)]
    /\ UNCHANGED <<content, p, q, compose>>

\* analyze_dockerfile line 111 in a build with overflow checks: the scoring
\* panics and analyze returns nothing.
AnalyzeDockerfilePanic ==
    /\ a.stage = "dispatched"
    /\ a.handoff.to = "analyze_dockerfile"
    /\ a.fs.readable
    /\ \E c \in MainDockerfileCounts :
       \E issues \in {ExtendAll(DockerfileRules, ResultsOf(DockerfileRules, c))} :
       \E sorted \in {SortBy(issues)} :
         /\ found' = ResultsOf(DockerfileRules, c)
         /\ CalculateScores(sorted).overflow
         /\ a' = [stage |-> "panicked", fs |-> a.fs,
                  handoff |-> a.handoff]
    /\ UNCHANGED <<content, p, q, compose>>

\* analyze_compose lines 122-123: ComposeParser::parse fails, reading the
\* file or deserializing it; the cause is carried as a string.
ComposeParseError ==
    /\ a.stage = "dispatched"
    /\ a.handoff.to = "analyze_compose"
    /\ ~a.fs.readable \/ ~a.fs.deserializes
    /\ a' = [stage |-> "returned", fs |-> a.fs, handoff |-> a.handoff,
             ok |-> FALSE,
             variant |-> "ComposeParseError",
             message |-> IF ~a.fs.readable THEN "read_to_string failed"
                         ELSE "serde_yaml::from_str failed"]
    /\ UNCHANGED <<content, p, q, found, compose>>

\* analyze_compose lines 120-144: the rules run and the Report is built.
AnalyzeCompose ==
    /\ a.stage = "dispatched"
    /\ a.handoff.to = "analyze_compose"
    /\ a.fs.readable /\ a.fs.deserializes
    /\ \E c \in MainComposeCounts :
       \E issues \in {ExtendAll(ComposeRules, ResultsOf(ComposeRules, c))} :
       \E sorted \in {SortBy(issues)} :
         /\ found' = ResultsOf(ComposeRules, c)
         /\ a' = [stage |-> "returned", fs |-> a.fs, handoff |-> a.handoff,
                  ok |-> TRUE,
                  report |-> ReportOf(a.handoff.path, sorted)]
    /\ UNCHANGED <<content, p, q, compose>>

\* main lines 21-64 and 84: the Report filtered, printed, the exit code.
MainOk ==
    /\ a.stage = "returned"
    /\ a.ok
    /\ \E args \in AnalyzeArgs :
       \E filtered_report \in {FilteredReport(a.report, args.severity)} :
         a' = [stage |-> "exited", command |-> "analyze", args |-> args,
               ok |-> TRUE, report |-> a.report,
               filtered_report |-> filtered_report,
               exit_code |-> ExitCode(args, filtered_report.issues)]
    /\ UNCHANGED <<content, p, q, found, compose>>

\* main lines 65-68: the error printed, exit code 1.
MainErr ==
    /\ a.stage = "returned"
    /\ ~a.ok
    /\ a' = [stage |-> "exited", command |-> "analyze", ok |-> FALSE,
             error |-> a.variant, exit_code |-> 1]
    /\ UNCHANGED <<content, p, q, found, compose>>

\* main lines 71-73: the rules command lists the registry.
RulesCommand ==
    /\ a.stage = "idle"
    /\ a' = [stage |-> "exited", command |-> "rules",
             listed |-> GetAllRules, exit_code |-> 0]
    /\ UNCHANGED <<content, p, q, found, compose>>

\* main lines 74-81: the explain command looks the rule up by id.
ExplainCommand ==
    /\ a.stage = "idle"
    /\ \E rule_id \in ExplainIds :
         LET rule == GetRuleById(rule_id)
         IN a' = [stage |-> "exited", command |-> "explain",
                  rule_id |-> rule_id, rule |-> rule,
                  exit_code |-> IF rule = None THEN 1 ELSE 0]
    /\ UNCHANGED <<content, p, q, found, compose>>

NextMain ==
    \/ AnalyzeCommand
    \/ AnalyzePath
    \/ ReturnError
    \/ DockerfileReadError
    \/ AnalyzeDockerfile
    \/ AnalyzeDockerfilePanic
    \/ ComposeParseError
    \/ AnalyzeCompose
    \/ MainOk
    \/ MainErr
    \/ RulesCommand
    \/ ExplainCommand

SpecMain == Init /\ [][NextMain]_vars

(***************************************************************************)
(* C21..C30: the analyzer as a whole.                                      *)
(***************************************************************************)
\* C21: once the file is read only the descriptor parser can fail: a
\* descriptor that cannot be deserialized gives ComposeParseError carrying the
\* cause and no Report, and a directive file that exists and is readable
\* always gives a Report, never an error, whatever its content.
C21_OnlyDescriptorParserFails ==
    a.stage \in {"returned", "panicked"} =>
        /\ (a.handoff.to = "analyze_dockerfile" /\ a.fs.readable)
              => (a.stage = "returned" /\ a.ok)
        /\ (a.handoff.to = "analyze_compose" /\ a.fs.readable
              /\ ~a.fs.deserializes)
              => /\ a.stage = "returned" /\ ~a.ok
                 /\ a.variant = "ComposeParseError"
                 /\ a.message # ""
                 /\ found = <<>>

\* C30: analyze resolves its path in a fixed priority.  A path that does not
\* exist gives FileNotFound before anything is read.  In a directory the first
\* of Dockerfile, docker-compose.yml, docker-compose.yaml, compose.yml,
\* compose.yaml that exists is analysed, and FileNotFound is returned when none
\* does.  For a file the name decides before the content is looked at, and
\* UnknownFileType is returned only when neither matches.  Exactly one file is
\* analysed per call.
C30_ResolutionPriority ==
    /\ a.stage = "dispatched" =>
        LET fs == a.fs
            h == a.handoff
            name == Chars(fs.path)
            text == Chars(fs.content)
            byName == NameIsDockerfile(name) \/ NameIsCompose(name)
        IN /\ fs.kind = "missing" =>
                 (h.to = "Err" /\ h.variant = "FileNotFound" /\ ~h.read)
           /\ fs.kind = "dir" =>
                 IF "Dockerfile" \in fs.entries
                 THEN h.to = "analyze_dockerfile" /\ h.path = "./Dockerfile"
                 ELSE IF "docker-compose.yml" \in fs.entries
                 THEN h.to = "analyze_compose" /\ h.path = "./docker-compose.yml"
                 ELSE IF "docker-compose.yaml" \in fs.entries
                 THEN h.to = "analyze_compose" /\ h.path = "./docker-compose.yaml"
                 ELSE IF "compose.yml" \in fs.entries
                 THEN h.to = "analyze_compose" /\ h.path = "./compose.yml"
                 ELSE IF "compose.yaml" \in fs.entries
                 THEN h.to = "analyze_compose" /\ h.path = "./compose.yaml"
                 ELSE h.to = "Err" /\ h.variant = "FileNotFound"
           /\ fs.kind = "file" =>
                 /\ NameIsDockerfile(name) =>
                        (h.to = "analyze_dockerfile" /\ ~h.read)
                 /\ (~NameIsDockerfile(name) /\ NameIsCompose(name)) =>
                        (h.to = "analyze_compose" /\ ~h.read)
                 /\ (~byName /\ fs.readable /\ ContentIsDockerfile(text)) =>
                        h.to = "analyze_dockerfile"
                 /\ (~byName /\ fs.readable /\ ~ContentIsDockerfile(text)
                        /\ ContentIsCompose(text)) =>
                        h.to = "analyze_compose"
                 /\ (h.to = "Err" /\ h.variant = "UnknownFileType") <=>
                        (~byName /\ fs.readable /\ ~ContentIsDockerfile(text)
                           /\ ~ContentIsCompose(text))
                 /\ h.to # "Err" => h.path = fs.path
    /\ (a.stage = "returned" /\ a.ok) =>
           /\ a.handoff.to # "Err"
           /\ a.report.file_path = a.handoff.path

\* C30 witness: a directory holding a Dockerfile and two descriptors, the
\* Dockerfile analysed.
C30_Witness ==
    /\ a.stage = "returned" /\ a.ok
    /\ a.fs.kind = "dir"
    /\ a.fs.entries = {"Dockerfile", "docker-compose.yml", "compose.yaml"}
    /\ a.report.file_path = "./Dockerfile"

\* C29: the minimum-severity filter leaves the scores and file_path of the
\* Report unchanged and yields exactly the subsequence of its issues whose
\* severity is at least the minimum, in their original order; the scores are
\* those computed from the full issue list.
C29_FilterFrame ==
    (a.stage = "exited" /\ a.command = "analyze" /\ a.ok) =>
        LET full == a.report.issues
            shown == a.filtered_report.issues
            keep == {k \in 1..Len(full) :
                        \/ a.args.severity = None
                        \/ SeverityRank(full[k].severity)
                             >= SeverityRank(a.args.severity[1])}
        IN /\ a.filtered_report.scores = a.report.scores
           /\ a.filtered_report.file_path = a.report.file_path
           /\ a.filtered_report.scores = CalculateScores(full).scores
           /\ Len(shown) = Cardinality(keep)
           /\ \A k \in keep :
                  shown[Cardinality({j \in keep : j <= k})] = full[k]

\* C29 witness: a Report with a Critical, a Warning and a Suggestion issue
\* shown with --severity warning: two issues shown, the scores those of three.
C29_Witness ==
    /\ a.stage = "exited" /\ a.command = "analyze" /\ a.ok
    /\ a.args.severity = Some("Warning")
    /\ Len(a.report.issues) = 3
    /\ a.report.issues[3].severity = "Suggestion"
    /\ Len(a.filtered_report.issues) = 2
    /\ a.filtered_report.scores.performance.current = 9

\* C24: with --fail-on S the process exits with a non-zero code whenever the
\* analysis found an issue of severity S or higher, with or without --ci and
\* whatever --severity filter is given.
C24_FailOnExitCode ==
    (a.stage = "exited" /\ a.command = "analyze" /\ a.ok
       /\ a.args.fail_on # None
       /\ \E k \in 1..Len(a.report.issues) :
              SeverityRank(a.report.issues[k].severity)
                >= SeverityRank(a.args.fail_on[1]))
        => a.exit_code # 0

\* The ids of the registry.
RegisteredIds == {GetAllRules[k].id : k \in DOMAIN GetAllRules}

\* C23: the ids of the registry are pairwise distinct; looking a registered
\* rule up by its id returns that rule, also when the id is given in lower or
\* mixed case, and an id that is not registered returns nothing; every rule
\* the analyses execute is in the registry.
C23_RegistryLookup ==
    /\ \A i, j \in DOMAIN GetAllRules :
           i # j => GetAllRules[i].id # GetAllRules[j].id
    /\ \A k \in DOMAIN GetAllRules :
           /\ GetRuleById(Chars(GetAllRules[k].id)) = Some(GetAllRules[k])
           /\ GetRuleById(ToLowercase(Chars(GetAllRules[k].id)))
                = Some(GetAllRules[k])
    /\ (a.stage = "exited" /\ a.command = "explain") =>
           LET named == {k \in DOMAIN GetAllRules :
                            EqIgnoreAsciiCase(a.rule_id,
                                              Chars(GetAllRules[k].id))}
           IN /\ named = {} => (a.rule = None /\ a.exit_code = 1)
              /\ \A k \in named :
                     a.rule = Some(GetAllRules[k]) /\ a.exit_code = 0
    /\ found # <<>> => DOMAIN found \subseteq RegisteredIds

\* C23 witness: explain dF001 finds the rule DF001.
C23_Witness ==
    /\ a.stage = "exited" /\ a.command = "explain"
    /\ a.rule_id = Chars("dF001")
    /\ a.rule # None
    /\ a.rule[1].id = "DF001"

\* C25: the directive pipeline runs exactly the ten rules DF001..DF010 and the
\* descriptor pipeline exactly the five rules DC001..DC005; every issue of a
\* Report carries one of those ids, and none carries DF011.
C25_WiredRulesOnly ==
    a.stage \in {"collected", "sorted", "report"} =>
        LET directive == {"DF001", "DF002", "DF003", "DF004", "DF005",
                          "DF006", "DF007", "DF008", "DF009", "DF010"}
            descriptor == {"DC001", "DC002", "DC003", "DC004", "DC005"}
        IN /\ a.kind = "dockerfile" =>
                  /\ DOMAIN found = directive
                  /\ Len(DockerfileRules) = 10
                  /\ \A k \in 1..Len(a.issues) :
                         a.issues[k].rule_id \in directive
           /\ a.kind = "compose" =>
                  /\ DOMAIN found = descriptor
                  /\ Len(ComposeRules) = 5
                  /\ \A k \in 1..Len(a.issues) :
                         a.issues[k].rule_id \in descriptor
           /\ \A k \in 1..Len(a.issues) : a.issues[k].rule_id # "DF011"

\* C25 witness: a Report on a Dockerfile with issues of four different rules.
C25_Witness ==
    /\ a.stage = "report"
    /\ a.kind = "dockerfile"
    /\ Cardinality({a.issues[k].rule_id : k \in 1..Len(a.issues)}) = 4

\* C28: every issue carries the rule_id and rule_name of exactly one
\* registered rule and that rule's declared severity, so what an issue deducts
\* is determined by its rule_id: 3 for DF001, DF002, DF006, DF010, DC002,
\* DC004, DC005; 2 for DF003, DF004, DF005, DF007, DC001, DC003; 1 for DF008,
\* DF009.
C28_IssueCarriesItsRule ==
    a.stage \in {"collected", "sorted", "report"} =>
        \A k \in 1..Len(a.issues) :
            LET issue == a.issues[k]
                rules == {r \in DOMAIN GetAllRules :
                             /\ GetAllRules[r].id = issue.rule_id
                             /\ GetAllRules[r].name = issue.rule_name}
            IN /\ Cardinality(rules) = 1
               /\ \A r \in rules : issue.severity = GetAllRules[r].severity
               /\ Deduction(issue.severity) =
                    CASE issue.rule_id \in {"DF001", "DF002", "DF006", "DF010",
                                            "DC002", "DC004", "DC005"} -> 3
                      [] issue.rule_id \in {"DF003", "DF004", "DF005", "DF007",
                                            "DC001", "DC003"} -> 2
                      [] issue.rule_id \in {"DF008", "DF009"} -> 1

\* C28 witness: a Report on a Dockerfile with a DF009 issue (a Suggestion) and
\* a DF001 issue (a Critical, named as DC004 is).
C28_Witness ==
    /\ a.stage = "report"
    /\ \E k \in 1..Len(a.issues) :
           a.issues[k].rule_id = "DF009" /\ a.issues[k].severity = "Suggestion"
    /\ \E k \in 1..Len(a.issues) :
           a.issues[k].rule_id = "DF001"
             /\ a.issues[k].rule_name = "Using latest tag"

\* The last physical line of the logical line that starts at line j: the
\* first line from j on without a trailing marker, or the last line.
LastAbsorbed(ls, j) ==
    CHOOSE e \in j..Len(ls) :
        /\ e = Len(ls) \/ ~EndsWithMarker(Trim(ls[e]))
        /\ \A m \in j..(e - 1) : EndsWithMarker(Trim(ls[m]))

\* C26: once a directive line ends with a continuation marker every following
\* physical line is absorbed into the same Instruction, up to a line without
\* a trailing marker or the end of input, whether the line is blank, a
\* comment or begins with a keyword; an absorbed line starts no Instruction of
\* its own, and raw_line is the absorbed lines joined by "\n" in their order.
C26_ContinuationAbsorbs ==
    p.pc = "done" =>
        LET ls == Lines(content)
        IN \A k \in 1..Len(p.instructions) :
               LET ins == p.instructions[k]
                   s == ins.line_number
                   e == LastAbsorbed(ls, s)
               IN /\ \A j \in (s + 1)..e :
                         \A n \in 1..Len(p.instructions) :
                             p.instructions[n].line_number # j
                  /\ ins.raw_line = JoinNL(SubSeq(ls, s, e))

(***************************************************************************)
(* The same input analysed twice.  Every analysis reads and parses the     *)
(* file anew; a descriptor's services are a HashMap whose iteration order  *)
(* (RandomState) is fixed for one deserialized map and free between two.   *)
(* The Report is built from the rules modelled in detail: DF001, DF002,    *)
(* DF004, DF005, DF008, DF009 and DC001, DC005, in wiring order.           *)
(***************************************************************************)
\* Lines of the Dockerfiles analysed twice.
TwiceLines ==
    { Chars("FROM node:latest"), Chars("FROM node:18"), Chars("USER root"),
      Chars("USER app"), Chars("HEALTHCHECK CMD x"), Chars("RUN make") }

TwiceContents == { JoinNL(ls) : ls \in SeqsUpTo(TwiceLines, MaxRuleLines) }

\* analyze_dockerfile lines 97-105 on parsed instructions.
DockerfileChecks(instructions) ==
    [id \in {"DF001", "DF002", "DF004", "DF005", "DF008", "DF009"} |->
        CASE id = "DF001" -> LatestTagCheck(instructions)
          [] id = "DF002" -> RootUserCheck(instructions)
          [] id = "DF004" -> LayerOrderCheck(instructions)
          [] id = "DF005" -> HealthcheckCheck(instructions)
          [] id = "DF008" -> MultistageCheck(instructions)
          [] id = "DF009" -> LargeBaseImageCheck(instructions)]

\* analyze_compose lines 128-132 on a descriptor whose services iterate in
\* the given order.
ComposeChecks(file, order) ==
    [id \in {"DC001", "DC005"} |->
        CASE id = "DC001" -> RestartPolicyCheck(file, order)
          [] id = "DC005" -> HardcodedSecretsCheck(file, order)]

\* The analyze command is given a Dockerfile.
ReadDockerfile ==
    /\ a.stage = "idle"
    /\ \E text \in TwiceContents : content' = text
    /\ a' = [stage |-> "read", kind |-> "dockerfile", reports |-> <<>>]
    /\ UNCHANGED <<p, q, found, compose>>

\* The analyze command is given a descriptor.
ReadDescriptor ==
    /\ a.stage = "idle"
    /\ \E file \in ComposeFiles : compose' = file
    /\ a' = [stage |-> "read", kind |-> "compose", reports |-> <<>>]
    /\ UNCHANGED <<content, p, q, found>>

\* analyze_dockerfile lines 90-118, one more time on the same file.
AnalyzeDockerfileAgain ==
    /\ a.stage \in {"read", "once"}
    /\ a.kind = "dockerfile"
    /\ \E results \in {DockerfileChecks(ParseContent(content))} :
       \E sorted \in {SortBy(ExtendAll(<<"DF001", "DF002", "DF004", "DF005",
                                         "DF008", "DF009">>, results))} :
         /\ found' = results
         /\ a' = [a EXCEPT
                    !.stage = IF a.stage = "read" THEN "once" ELSE "twice",
                    !.reports = Append(@, ReportOf("Dockerfile", sorted))]
    /\ UNCHANGED <<content, p, q, compose>>

\* analyze_compose lines 120-144, one more time on the same file.
AnalyzeComposeAgain ==
    /\ a.stage \in {"read", "once"}
    /\ a.kind = "compose"
    /\ \E order \in Orders(ServicesOf(compose)) :
       \E results \in {ComposeChecks(compose, order)} :
       \E sorted \in {SortBy(ExtendAll(<<"DC001", "DC005">>, results))} :
         /\ found' = results
         /\ a' = [a EXCEPT
                    !.stage = IF a.stage = "read" THEN "once" ELSE "twice",
                    !.reports = Append(@, ReportOf("docker-compose.yml",
                                                   sorted))]
    /\ UNCHANGED <<content, p, q, compose>>

NextTwice ==
    \/ ReadDockerfile
    \/ ReadDescriptor
    \/ AnalyzeDockerfileAgain
    \/ AnalyzeComposeAgain

SpecTwice == Init /\ [][NextTwice]_vars

\* C27: analysing the same input twice yields identical Reports (the same
\* issues in the same order, the same scores), for directive files and for
\* descriptors with two or more services that violate the same rule.
C27_SameInputSameReport ==
    a.stage = "twice" => a.reports[1] = a.reports[2]

(***************************************************************************)
(* The wired rules run in another order than the one of the analyzer: the  *)
(* same calls issues.extend(rule.check(..)), permuted.  A rule's result    *)
(* depends on the parsed file alone, so found is the same in every order.  *)
(***************************************************************************)
\* The list with the elements at places i and j exchanged.
Swap(rules, i, j) ==
    [k \in 1..Len(rules) |->
        IF k = i THEN rules[j] ELSE IF k = j THEN rules[i] ELSE rules[k]]

\* The orders tried: the wired one, its reverse and every transposition.
RuleOrders(rules) ==
    {rules, [k \in 1..Len(rules) |-> rules[Len(rules) + 1 - k]]}
      \cup {Swap(rules, i, j) : i, j \in 1..Len(rules)}

\* Counts for a Dockerfile on which rules of equal severity fire together.
PermutedDockerfileCounts ==
    { [id \in RuleSet(DockerfileRules) |->
          CASE id = "DF001" -> x
            [] id = "DF002" -> y[1]
            [] id = "DF003" -> y[2]
            [] id = "DF005" -> y[3]
            [] id = "DF008" -> y[4]
            [] OTHER -> 0] :
      x \in 0..MaxPerRule, y \in [1..4 -> 0..1] }

\* Mutant of ExtendInOrder: the rule that runs last is left out.
ExtendInOrderSkippingLast(order, results) ==
    ExtendAll(SubSeq(order, 1, Len(order) - 1), results)

\* Lines 97-106 and 128-132 with the calls in the given order.
ExtendInOrder(order, results) == ExtendAll(order, results)

\* analyze_dockerfile lines 94-106 with the ten calls permuted.
RunDockerfileRulesPermuted ==
    /\ a.stage = "idle"
    /\ \E c \in PermutedDockerfileCounts, order \in RuleOrders(DockerfileRules) :
         /\ found' = ResultsOf(DockerfileRules, c)
         /\ a' = [stage |-> "collected", kind |-> "dockerfile",
                  issues |-> ExtendInOrder(order, found'),
                  scores |-> NoScores, order |-> order]
    /\ UNCHANGED <<content, p, q, compose>>

\* analyze_compose lines 125-132 with the five calls permuted.
RunComposeRulesPermuted ==
    /\ a.stage = "idle"
    /\ \E c \in ComposeCounts, order \in RuleOrders(ComposeRules) :
         /\ found' = ResultsOf(ComposeRules, c)
         /\ a' = [stage |-> "collected", kind |-> "compose",
                  issues |-> ExtendInOrder(order, found'),
                  scores |-> NoScores, order |-> order]
    /\ UNCHANGED <<content, p, q, compose>>

NextPermuted ==
    \/ RunDockerfileRulesPermuted
    \/ RunComposeRulesPermuted
    \/ SortIssues
    \/ ReturnReport

SpecPermuted == Init /\ [][NextPermuted]_vars

\* The sorted issues of the Report the analyzer builds, its rules in wired
\* order.
WiredIssues ==
    SortBy(ExtendAll(IF a.kind = "dockerfile" THEN DockerfileRules
                     ELSE ComposeRules, found))

\* The same issues, each as many times.
SameMultiset(s, t) ==
    /\ Len(s) = Len(t)
    /\ \A k \in 1..Len(s) :
           Cardinality({j \in 1..Len(s) : s[j] = s[k]})
             = Cardinality({j \in 1..Len(t) : t[j] = s[k]})

\* C22 as stated: run in any order, the wired rules give a Report with the
\* same multiset of issues, the same scores and the same final sorted issue
\* order as in wired order.
C22_AnyOrderSameReport ==
    a.stage = "report" =>
        /\ SameMultiset(a.issues, WiredIssues)
        /\ a.scores = CalculateScores(WiredIssues).scores
        /\ a.issues = WiredIssues

\* C22 amended: run in any order, the wired rules give a Report with the same
\* multiset of issues and the same scores, and the same sorted order up to
\* the order of issues of equal severity that come from different rules (the
\* severity at every place and the order of each rule's own issues are the
\* same).
C22_AnyOrderSameIssuesAndScores ==
    a.stage = "report" =>
        /\ SameMultiset(a.issues, WiredIssues)
        /\ a.scores = CalculateScores(WiredIssues).scores
        /\ \A k \in 1..Len(a.issues) :
               a.issues[k].severity = WiredIssues[k].severity
        /\ \A id \in DOMAIN found :
               SelectSeq(a.issues, LAMBDA issue : issue.rule_id = id)
                 = SelectSeq(WiredIssues, LAMBDA issue : issue.rule_id = id)

\* C22 witness: a Report whose rules ran in another order than the wired one
\* and whose issues stand in another order than in the wired Report.
C22_Witness ==
    /\ a.stage = "report"
    /\ a.kind = "dockerfile"
    /\ a.order # DockerfileRules
    /\ a.issues # WiredIssues
    /\ Len(a.issues) >= 3

====
